---- MODULE Spec2Model ----
(***************************************************************************)
(* Auto-moderation pipeline of the Nova AI moderation bots.                *)
(*                                                                         *)
(* One process runs either the Discord bot (src/discord/bot.py) or the     *)
(* Telegram bot (src/telegram/bot.py).  Its module-level configuration is  *)
(* fixed when the process starts.  Every inbound message event is handled  *)
(* by one run of on_message (Discord) or handle_message (Telegram); a run  *)
(* is a sequence of steps separated by the awaits of the code: the         *)
(* moderation API call and every platform call (delete, mute, ban, notice, *)
(* audit-log post).  The platform and the API are the environment: every   *)
(* call may succeed or raise.                                              *)
(***************************************************************************)
EXTENDS Integers, Sequences, FiniteSets, TLC

(***************************************************************************)
(* Bounds of the model.                                                    *)
(***************************************************************************)
\* banned_days and the configured day counts range over -1 .. MaxDays
MaxDays == 3
\* at most MaxFailures platform calls fail during one handler run
MaxFailures == 1
\* policy.txt and instructions.txt have at most MaxLines lines
MaxLines == 2

(***************************************************************************)
(* Python values.                                                          *)
(***************************************************************************)
\* a dict is a function from a finite set of string keys; {} is EmptyDict
EmptyDict == [k \in {} |-> 0]
\* a JSON number n is boxed as <<n>>, JSON null (Python None) is <<>>
None == <<>>
Num(n) == <<n>>
IsNone(v) == v = None
Unbox(v) == v[1]
\* truth value of an optional number: None and 0 are falsy
Truthy(v) == ~IsNone(v) /\ Unbox(v) # 0

\* dict.get(key, default)
Get(d, k, default) == IF k \in DOMAIN d THEN d[k] ELSE default

\* dict.get(key) without a default yields None
GetOpt(d, k) == Get(d, k, None)

Min(a, b) == IF a <= b THEN a ELSE b

(***************************************************************************)
(* State.                                                                  *)
(***************************************************************************)
VARIABLES
    platform,                              \* "discord" or "telegram"
    \* module-level configuration (read-only after start)
    AUTO_MODERATE_MESSAGES,
    AUTO_MODERATE_ACTION,
    AUTO_MODERATE_MIN_SEVERITY,
    AUTO_MODERATE_DEFAULT_TIMEOUT_DAYS,
    AUTO_MODERATE_MAX_TIMEOUT_DAYS,
    AUTO_MODERATE_LOG_CHANNEL_ID,          \* 0 stands for None
    AUTO_MODERATE_IGNORE_BOTS,
    AUTO_MODERATE_EXCLUDED_CHANNELS,
    AUTO_MODERATE_INCLUDED_CHANNELS,
    AUTO_MODERATE_BYPASS_ROLES,
    ALLOWED_GUILD_IDS,
    ALLOWED_CHAT_IDS,
    \* one handler run per message event
    inbox,                                 \* message events not yet dispatched
    pc,                                    \* next await of each run
    msg,                                   \* the message of each run
    response,                              \* the HTTP response of the API call
    result,                                \* what call_nova_moderation returned
    skip,                                  \* why the run ended without acting
    action_taken,                          \* on_message's action_taken
    effects,                               \* platform calls attempted, in order
    raised,                                \* exception that left the handler
    requests,                              \* moderation API requests sent
    debug_file,                            \* what became of the write to debug.txt
    audit_action,                          \* "Action Taken" of the posted log embed
    later,                                 \* the delete_later tasks a run created
    \* the environment
    traffic,                               \* which messages and API replies occur
    \* call_nova_moderation up to the POST, and the files it reads
    USE_POLICY_FILE,
    USE_INSTRUCTIONS_FILE,
    policy_txt,                            \* policy.txt on disk
    instructions_txt,                      \* instructions.txt on disk
    call_args,                             \* arguments of the call
    call_pc,                               \* "idle", "pending" or "posted"
    policy_loaded,                         \* what the policy loader returned
    instructions_loaded,                   \* what the instructions loader returned
    sources,                               \* the provenance list
    payload,                               \* the JSON body of the POST
    \* the /moderate command
    cmd_update,                            \* the interaction or update received
    cmd_pc,                                \* next await of the command handler
    cmd_content,                           \* the handler's content
    cmd_replies                            \* replies attempted, in order

config == <<platform, AUTO_MODERATE_MESSAGES, AUTO_MODERATE_ACTION,
            AUTO_MODERATE_MIN_SEVERITY, AUTO_MODERATE_DEFAULT_TIMEOUT_DAYS,
            AUTO_MODERATE_MAX_TIMEOUT_DAYS, AUTO_MODERATE_LOG_CHANNEL_ID,
            AUTO_MODERATE_IGNORE_BOTS, AUTO_MODERATE_EXCLUDED_CHANNELS,
            AUTO_MODERATE_INCLUDED_CHANNELS, AUTO_MODERATE_BYPASS_ROLES,
            ALLOWED_GUILD_IDS, ALLOWED_CHAT_IDS>>

run == <<inbox, pc, msg, response, result, skip, action_taken, effects, raised,
         requests, debug_file, audit_action, later>>

assembly == <<USE_POLICY_FILE, USE_INSTRUCTIONS_FILE, policy_txt, instructions_txt,
              call_args, call_pc, policy_loaded, instructions_loaded, sources,
              payload>>

command == <<cmd_update, cmd_pc, cmd_content, cmd_replies>>

vars == <<config, run, assembly, traffic, command>>

\* ids of the message events
MessageIds == {1, 2}


(***************************************************************************)
(* Inputs: messages, API responses, platform outcomes, configurations.     *)
(***************************************************************************)
\* a configured id list is empty or holds id 1; messages carry id 1 or 2
IdLists == {{}, {1}}

\* discord.Message as on_message reads it: guild 0 is a direct message
\* (message.guild is None); an author without a roles attribute behaves as
\* one with no roles
DiscordMessages ==
    [author_bot : BOOLEAN, guild : {0, 1, 2}, channel : {1, 2},
     roles : IdLists, content : {"", "text"}]

\* telegram Message as handle_message reads it: text "" is a message without
\* text
TelegramMessages ==
    [author_bot : BOOLEAN, chat : {1, 2}, text : {"", "text"}]

Statuses == {"ALLOWED", "BLOCKED", "DISALLOWED", "REVIEW"}
Severities == {"LOW", "MEDIUM", "HIGH", "CRITICAL", "UNKNOWN"}
BannedDays == {None} \cup {Num(n) : n \in -1 .. MaxDays}

\* the JSON object of a verdict holding the keys K
Verdict(K, st, sv, bd) ==
    [k \in K |-> CASE k = "status" -> st
                   [] k = "severity" -> sv
                   [] k = "banned_days" -> bd]

\* verdict bodies: every combination of present/absent status and severity,
\* and every banned_days on a blocked verdict
Verdicts ==
    {Verdict(K, st, sv, None) :
        K \in SUBSET {"status", "severity"}, st \in Statuses, sv \in Severities}
    \cup
    {Verdict({"status", "severity", "banned_days"}, "BLOCKED", "HIGH", bd) :
        bd \in BannedDays}

\* a response text either is the JSON text of a dict or does not parse
JsonText(v) == [json |-> TRUE, value |-> v]
NotJson == [json |-> FALSE, value |-> EmptyDict]

\* HTTP responses; code 0 stands for a connection that failed
HttpErrorCodes == {401, 500}
Responses ==
    {[code |-> 200, text |-> JsonText(v)] : v \in Verdicts}
    \cup {[code |-> 200, text |-> NotJson], [code |-> 0, text |-> NotJson]}
    \cup {[code |-> c, text |-> t] :
            c \in HttpErrorCodes,
            t \in {NotJson,
                   JsonText(Verdict({"status", "severity"}, "BLOCKED", "CRITICAL", None))}}

\* a sample of the messages: one that every shipped scope rule lets through
\* and one that is skipped
SampleDiscordMessages ==
    {[author_bot |-> FALSE, guild |-> g, channel |-> 1, roles |-> {},
      content |-> "text"] : g \in {0, 1}}
SampleTelegramMessages ==
    {[author_bot |-> FALSE, chat |-> 1, text |-> t] : t \in {"", "text"}}

\* a sample of the replies: a blocked verdict, an allowed one, a server error
SampleResponses ==
    {[code |-> 200, text |-> JsonText(Verdict({"status", "severity", "banned_days"},
                                              "BLOCKED", "HIGH", Num(1)))],
     [code |-> 200, text |-> JsonText(Verdict({"status", "severity"},
                                              "ALLOWED", "LOW", None))],
     [code |-> 500, text |-> NotJson]}

\* the messages an event may carry and the replies the API may give
Incoming ==
    IF traffic = "sample"
    THEN IF platform = "discord" THEN SampleDiscordMessages
         ELSE SampleTelegramMessages
    ELSE IF platform = "discord" THEN DiscordMessages ELSE TelegramMessages

ApiReplies == IF traffic = "sample" THEN SampleResponses ELSE Responses

\* outcome of a platform call: discord.Forbidden / telegram.error.Forbidden,
\* discord.NotFound / telegram.error.BadRequest, any other HTTPException /
\* TelegramError
PlatformErrors == {"Forbidden", "NotFound", "HTTPException"}
Outcomes == {"ok"} \cup PlatformErrors

(***************************************************************************)
(* Severity threshold.                                                     *)
(***************************************************************************)
SEVERITY_ORDER == [LOW |-> 1, MEDIUM |-> 2, HIGH |-> 3, CRITICAL |-> 4]

\* variant: a severity equal to the threshold does not meet it
severity_meets_threshold_strict(severity, min_severity) ==
    Get(SEVERITY_ORDER, severity, 0) > Get(SEVERITY_ORDER, min_severity, 0)

severity_meets_threshold(severity, min_severity) ==
    Get(SEVERITY_ORDER, severity, 0) >= Get(SEVERITY_ORDER, min_severity, 0)

\* handle_message's inline check: TRUE when the handler returns
severity_levels == [LOW |-> 1, MEDIUM |-> 2, HIGH |-> 3, CRITICAL |-> 4]

TelegramBelowThreshold(severity, min_severity) ==
    Get(severity_levels, severity, 0) < Get(severity_levels, min_severity, 0)

(***************************************************************************)
(* call_nova_moderation: from the HTTP response to a returned dict or a    *)
(* raised exception.                                                       *)
(***************************************************************************)
Return(v) == [raises |-> "", value |-> v]
Raise(e) == [raises |-> e, value |-> EmptyDict]

\* json.loads(text)
json_loads(text) == IF text.json THEN Return(text.value) ELSE Raise("JSONDecodeError")

\* the outcomes of appending to debug.txt once the response has been read
DebugWrites == {"written", "OSError"}

\* variant: the write to debug.txt is made outside any try block
WriteDebugFile_unguarded(io) ==
    IF io = "OSError" THEN Raise("OSError") ELSE Return(EmptyDict)

\* the try block around the write: whatever the write does, the call goes on
WriteDebugFile(io) == Return(EmptyDict)

\* variant: the body is parsed whatever the HTTP status
DiscordCallNovaModeration_any_status(resp) ==
    IF resp.code = 0 THEN Raise("ClientError") ELSE json_loads(resp.text)

DiscordCallNovaModeration(resp) ==
    IF resp.code = 0 THEN Raise("ClientError")
    ELSE IF resp.code = 200 THEN json_loads(resp.text)
    ELSE Return([error |-> TRUE, status_code |-> resp.code,
                 message |-> resp.text])

TelegramCallNovaModeration(resp) ==
    IF resp.code = 0 THEN Raise("ClientError")
    ELSE IF resp.code = 200 THEN json_loads(resp.text)
    ELSE Return([error |-> TRUE, message |-> resp.text])


(***************************************************************************)
(* Texts.  A str is a sequence of runs of characters [of, len]; what a run *)
(* is made of tells a comment from a marker line, file text from inline    *)
(* text.  None and the empty str are both <<>>: the code only tests them   *)
(* for truth.                                                              *)
(***************************************************************************)
POLICY_MAX_CHARS == 10000
INSTRUCTIONS_MAX_CHARS == 2000

Run(of, n) == IF n = 0 THEN <<>> ELSE <<[of |-> of, len |-> n]>>

Newline == Run("\n", 1)

\* len(text)
RECURSIVE TextLen(_)
TextLen(text) == IF text = <<>> THEN 0 ELSE Head(text).len + TextLen(Tail(text))

\* text[:n]
RECURSIVE Prefix(_, _)
Prefix(text, n) ==
    IF text = <<>> \/ n = 0 THEN <<>>
    ELSE IF Head(text).len >= n THEN Run(Head(text).of, n)
    ELSE <<Head(text)>> \o Prefix(Tail(text), n - Head(text).len)

\* a line of a file: leading blanks, then a body that is empty, a comment
\* ("# ..."), a marker line ("#policy ..." or "#POLICY ...") or plain text;
\* the short lines of the files below have 8 characters, a marker and one more
Line(indent, kind, len) == [indent |-> indent, kind |-> kind, len |-> len]
BlankLine == Line(0, "", 0)
LineKinds == {"#", "#policy", "#POLICY", "text"}
Lines(lens) ==
    {BlankLine} \cup {Line(d, k, n) : d \in {0, 1}, k \in LineKinds, n \in lens}

\* the characters of a line
LineText(line) == Run(" ", line.indent) \o Run(line.kind, line.len)

\* line.strip()
strip(line) == [line EXCEPT !.indent = 0]
\* line.startswith("#")
startswith_hash(line) == line.indent = 0 /\ line.kind \in {"#", "#policy", "#POLICY"}
\* line.lower().startswith("#policy")
lower_startswith_policy(line) == line.indent = 0 /\ line.kind \in {"#policy", "#POLICY"}
\* the truth value of a line
NonEmpty(line) == line.indent + line.len > 0

\* "\n".join(lines)
RECURSIVE join(_)
join(lines) ==
    IF lines = <<>> THEN <<>>
    ELSE IF Len(lines) = 1 THEN LineText(lines[1])
    ELSE LineText(Head(lines)) \o Newline \o join(Tail(lines))

\* a file on disk
File(lines) == [exists |-> TRUE, readable |-> TRUE, lines |-> lines]
Missing == [exists |-> FALSE, readable |-> FALSE, lines |-> <<>>]
Unreadable == [exists |-> TRUE, readable |-> FALSE, lines |-> <<>>]
Files(lens) ==
    {Missing, Unreadable}
    \cup {File(ls) : ls \in UNION {[1 .. n -> Lines(lens)] : n \in 0 .. MaxLines}}

RECURSIVE lstrip_lines(_)
lstrip_lines(lines) ==
    IF lines = <<>> THEN <<>>
    ELSE IF ~NonEmpty(Head(lines)) THEN lstrip_lines(Tail(lines))
    ELSE <<strip(Head(lines))>> \o Tail(lines)

RECURSIVE rstrip_lines(_)
rstrip_lines(lines) ==
    IF lines = <<>> THEN <<>>
    ELSE IF ~NonEmpty(lines[Len(lines)])
         THEN rstrip_lines(SubSeq(lines, 1, Len(lines) - 1))
    ELSE lines

\* read_text().strip().split("\n"): the blank lines at both ends and the
\* indentation of the first line are gone; an empty text splits into one
\* empty line
read_strip_split(file) ==
    LET stripped == rstrip_lines(lstrip_lines(file.lines))
    IN  IF stripped = <<>> THEN <<BlankLine>> ELSE stripped


(***************************************************************************)
(* The loaders of policy.txt and instructions.txt.                         *)
(***************************************************************************)
\* the (content, warning) pair a loader returns; the warning is named by
\* its kind, "None" when there is none
Loaded(content, warning) == [content |-> content, warning |-> warning]
NotCalled == Loaded(None, "not called")

\* [line.strip() for line in lines]
stripped_lines(lines) == [k \in 1 .. Len(lines) |-> strip(lines[k])]

\* the test of the loop of load_policy_file
IsPolicyLine(line) ==
    lower_startswith_policy(line) \/ (NonEmpty(line) /\ ~startswith_hash(line))

policy_lines(file) == SelectSeq(stripped_lines(read_strip_split(file)), IsPolicyLine)

\* variant: the policy loader reads the file without looking for it first,
\* so that a missing file is one more read error
load_policy_file_unchecked ==
    IF ~USE_POLICY_FILE THEN Loaded(None, "None")
    ELSE IF ~policy_txt.readable THEN Loaded(None, "error")
    ELSE LET content == join(policy_lines(policy_txt))
         IN  IF content = <<>> THEN Loaded(None, "None")
             ELSE IF TextLen(content) > POLICY_MAX_CHARS
                  THEN Loaded(Prefix(content, POLICY_MAX_CHARS), "truncated")
             ELSE Loaded(content, "None")

load_policy_file ==
    IF ~USE_POLICY_FILE THEN Loaded(None, "None")
    ELSE IF ~policy_txt.exists THEN Loaded(None, "not found")
    ELSE IF ~policy_txt.readable THEN Loaded(None, "error")
    ELSE LET content == join(policy_lines(policy_txt))
         IN  IF content = <<>> THEN Loaded(None, "None")
             ELSE IF TextLen(content) > POLICY_MAX_CHARS
                  THEN Loaded(Prefix(content, POLICY_MAX_CHARS), "truncated")
             ELSE Loaded(content, "None")

\* the test of the comprehension of load_instructions_file
IsInstructionLine(line) == NonEmpty(strip(line)) /\ ~startswith_hash(strip(line))

instruction_lines(file) == SelectSeq(read_strip_split(file), IsInstructionLine)

load_instructions_file ==
    IF ~USE_INSTRUCTIONS_FILE THEN Loaded(None, "None")
    ELSE IF ~instructions_txt.exists THEN Loaded(None, "not found")
    ELSE IF ~instructions_txt.readable THEN Loaded(None, "error")
    ELSE LET content == join(instruction_lines(instructions_txt))
         IN  IF content = <<>> THEN Loaded(None, "None")
             ELSE IF TextLen(content) > INSTRUCTIONS_MAX_CHARS
                  THEN Loaded(Prefix(content, INSTRUCTIONS_MAX_CHARS), "truncated")
             ELSE Loaded(content, "None")

\* the test of the loop of the Telegram load_text_file
IsTextLine(line) ==
    NonEmpty(line) /\ (lower_startswith_policy(line) \/ ~startswith_hash(line))

text_lines(path) == SelectSeq(stripped_lines(read_strip_split(path)), IsTextLine)

\* variant: the content is returned whole, whatever its length
load_text_file_uncapped(path, max_chars) ==
    IF ~path.exists THEN Loaded(None, "not found")
    ELSE IF ~path.readable THEN Loaded(None, "error")
    ELSE LET content == join(text_lines(path))
         IN  IF content = <<>> THEN Loaded(None, "None")
             ELSE Loaded(content, "None")

load_text_file(path, max_chars) ==
    IF ~path.exists THEN Loaded(None, "not found")
    ELSE IF ~path.readable THEN Loaded(None, "error")
    ELSE LET content == join(text_lines(path))
         IN  IF content = <<>> THEN Loaded(None, "None")
             ELSE IF TextLen(content) > max_chars
                  THEN Loaded(Prefix(content, max_chars), "truncated")
             ELSE Loaded(content, "None")


(***************************************************************************)
(* call_nova_moderation from its arguments to the body of the POST.        *)
(***************************************************************************)
\* variant: the inline text is put before the file text
Merge_inline_first(file_text, inline) ==
    IF inline # <<>>
    THEN IF file_text # <<>> THEN inline \o Newline \o file_text ELSE inline
    ELSE file_text

\* final_policy / final_instructions after the inline text has been added
Merge(file_text, inline) ==
    IF inline # <<>>
    THEN IF file_text # <<>> THEN file_text \o Newline \o inline ELSE inline
    ELSE file_text

\* final_policy[:POLICY_MAX_CHARS] when it is longer
Capped(text, max_chars) ==
    IF text # <<>> /\ TextLen(text) > max_chars THEN Prefix(text, max_chars) ELSE text

Tag(text, tag) == IF text # <<>> THEN <<tag>> ELSE <<>>

\* variant: each inline tag follows the tag of its file
Sources_by_field(file_policy, file_instructions, policy, instructions) ==
    Tag(file_policy, "policy.txt") \o Tag(policy, "inline policy")
    \o Tag(file_instructions, "instructions.txt")
    \o Tag(instructions, "inline instructions")

\* the provenance list
Sources(file_policy, file_instructions, policy, instructions) ==
    Tag(file_policy, "policy.txt") \o Tag(file_instructions, "instructions.txt")
    \o Tag(policy, "inline policy") \o Tag(instructions, "inline instructions")

\* variant: both optional keys are always set
BuildPayload_all_keys(content, final_policy, final_instructions) ==
    [k \in {"content", "policy", "instructions"} |->
        CASE k = "content" -> content
          [] k = "policy" -> final_policy
          [] OTHER -> final_instructions]

\* payload = {"content": content}, then the two optional keys
BuildPayload(content, final_policy, final_instructions) ==
    [k \in {"content"}
           \cup (IF final_policy # <<>> THEN {"policy"} ELSE {})
           \cup (IF final_instructions # <<>> THEN {"instructions"} ELSE {}) |->
        CASE k = "content" -> content
          [] k = "policy" -> final_policy
          [] OTHER -> final_instructions]

\* the arguments of a call in which only content is given
DefaultArgs ==
    [content |-> Run("content", 1), policy |-> None, instructions |-> None,
     use_policy_file |-> TRUE, use_instructions_file |-> TRUE]

\* inline texts: none, short, as long as the cap and longer
InlineTexts(max_chars) ==
    {None} \cup {Run("inline", n) : n \in {1, max_chars, max_chars + 1}}

\* the calls of /moderate and of "Moderate Message"
DiscordCallArgs ==
    [content : {Run("content", 1)},
     policy : InlineTexts(POLICY_MAX_CHARS),
     instructions : InlineTexts(INSTRUCTIONS_MAX_CHARS),
     use_policy_file : BOOLEAN, use_instructions_file : BOOLEAN]

\* no command is being handled
NoCommand ==
    /\ cmd_update = EmptyDict /\ cmd_pc = "idle"
    /\ cmd_content = <<>> /\ cmd_replies = <<>>

\* no call is being made
NoCall ==
    /\ USE_POLICY_FILE = TRUE /\ USE_INSTRUCTIONS_FILE = TRUE
    /\ policy_txt = Missing /\ instructions_txt = Missing
    /\ call_args = DefaultArgs /\ call_pc = "idle"
    /\ policy_loaded = NotCalled /\ instructions_loaded = NotCalled
    /\ sources = <<>> /\ payload = EmptyDict

\* the Discord call_nova_moderation up to session.post
DiscordCallNovaModerationPost ==
    /\ platform = "discord" /\ call_pc = "pending"
    /\ LET a == call_args
           pl == IF a.use_policy_file /\ USE_POLICY_FILE
                 THEN load_policy_file ELSE NotCalled
           il == IF a.use_instructions_file /\ USE_INSTRUCTIONS_FILE
                 THEN load_instructions_file ELSE NotCalled
           final_policy == Capped(Merge(pl.content, a.policy), POLICY_MAX_CHARS)
           final_instructions ==
               Capped(Merge(il.content, a.instructions), INSTRUCTIONS_MAX_CHARS)
       IN  /\ policy_loaded' = pl
           /\ instructions_loaded' = il
           /\ sources' = Sources(pl.content, il.content, a.policy, a.instructions)
           /\ payload' = BuildPayload(a.content, final_policy, final_instructions)
    /\ call_pc' = "posted"
    /\ UNCHANGED <<config, traffic, command, run, USE_POLICY_FILE,
                 USE_INSTRUCTIONS_FILE, policy_txt, instructions_txt,
                 call_args>>

\* the Telegram call_nova_moderation up to session.post
TelegramCallNovaModerationPost ==
    /\ platform = "telegram" /\ call_pc = "pending"
    /\ LET p == IF USE_POLICY_FILE
                THEN load_text_file(policy_txt, POLICY_MAX_CHARS) ELSE NotCalled
           i == IF USE_INSTRUCTIONS_FILE
                THEN load_text_file(instructions_txt, INSTRUCTIONS_MAX_CHARS)
                ELSE NotCalled
       IN  /\ policy_loaded' = p
           /\ instructions_loaded' = i
           /\ payload' = BuildPayload(call_args.content, p.content, i.content)
    /\ call_pc' = "posted"
    /\ UNCHANGED <<config, traffic, command, run, USE_POLICY_FILE,
                 USE_INSTRUCTIONS_FILE, policy_txt, instructions_txt,
                 call_args, sources>>


(***************************************************************************)
(* Configurations.  The day counts are scaled down: the shipped maximum of *)
(* 28 days becomes 2, so that banned_days can exceed it within MaxDays.    *)
(***************************************************************************)
DiscordActions == {"delete", "warn", "log", "delete_and_warn", "timeout", "ban"}
\* the actions of the configuration comment, and "timeout" which the handler
\* tests for
TelegramActions == {"delete", "warn", "delete_and_warn", "mute", "timeout", "ban"}
\* "NONE" is a threshold SEVERITY_ORDER does not know
MinSeverities == {"LOW", "MEDIUM", "HIGH", "CRITICAL", "NONE"}

DiscordConfigSpace ==
    [messages : BOOLEAN, action : DiscordActions, min_severity : MinSeverities,
     default_days : {1, MaxDays}, max_days : {2}, log_channel : {0, 1},
     ignore_bots : BOOLEAN, excluded : IdLists, included : IdLists,
     bypass : IdLists, guilds : IdLists, chats : {{}}]

\* the scope settings as shipped: every guild, channel and role is moderated
ShippedScope(c) ==
    /\ c.messages /\ c.ignore_bots
    /\ c.excluded = {} /\ c.included = {} /\ c.bypass = {} /\ c.guilds = {}

\* the enforcement settings as shipped
ShippedEnforcement(c) ==
    /\ c.action = "delete_and_warn" /\ c.min_severity = "LOW"
    /\ c.default_days = 1 /\ c.log_channel = 0

\* configurations that change the scope settings or the enforcement settings
DiscordConfigs ==
    {c \in DiscordConfigSpace : ShippedScope(c) \/ ShippedEnforcement(c)}

TelegramConfigs ==
    [messages : BOOLEAN, action : TelegramActions, min_severity : MinSeverities,
     default_days : {1, MaxDays}, max_days : {2}, log_channel : {0},
     ignore_bots : {TRUE}, excluded : {{}}, included : {{}},
     bypass : {{}}, guilds : {{}}, chats : IdLists]

Configured(c) ==
    /\ AUTO_MODERATE_MESSAGES = c.messages
    /\ AUTO_MODERATE_ACTION = c.action
    /\ AUTO_MODERATE_MIN_SEVERITY = c.min_severity
    /\ AUTO_MODERATE_DEFAULT_TIMEOUT_DAYS = c.default_days
    /\ AUTO_MODERATE_MAX_TIMEOUT_DAYS = c.max_days
    /\ AUTO_MODERATE_LOG_CHANNEL_ID = c.log_channel
    /\ AUTO_MODERATE_IGNORE_BOTS = c.ignore_bots
    /\ AUTO_MODERATE_EXCLUDED_CHANNELS = c.excluded
    /\ AUTO_MODERATE_INCLUDED_CHANNELS = c.included
    /\ AUTO_MODERATE_BYPASS_ROLES = c.bypass
    /\ ALLOWED_GUILD_IDS = c.guilds
    /\ ALLOWED_CHAT_IDS = c.chats

\* no handler has run yet; one message event is pending
InitRuns(pending) ==
    /\ inbox = pending
    /\ pc = [i \in MessageIds |-> "idle"]
    /\ msg = [i \in MessageIds |-> EmptyDict]
    /\ response = [i \in MessageIds |-> EmptyDict]
    /\ result = [i \in MessageIds |-> EmptyDict]
    /\ skip = [i \in MessageIds |-> ""]
    /\ action_taken = [i \in MessageIds |-> ""]
    /\ effects = [i \in MessageIds |-> <<>>]
    /\ raised = [i \in MessageIds |-> ""]
    /\ requests = [i \in MessageIds |-> 0]
    /\ debug_file = [i \in MessageIds |-> ""]
    /\ audit_action = [i \in MessageIds |-> ""]
    /\ later = [i \in MessageIds |-> <<>>]

Init ==
    /\ platform \in {"discord", "telegram"}
    /\ \E c \in IF platform = "discord" THEN DiscordConfigs ELSE TelegramConfigs :
            Configured(c)
    /\ InitRuns({1})
    /\ NoCall
    /\ NoCommand
    /\ traffic = "any"


(***************************************************************************)
(* Steps shared by both handlers.                                          *)
(***************************************************************************)
\* a platform call as recorded in effects
Effect(op, out, days) == [op |-> op, out |-> out, days |-> days]

Failures(es) == Cardinality({k \in 1 .. Len(es) : es[k].out # "ok"})

\* the outcomes the platform may still produce in run i
MayHappen(i) ==
    IF Failures(effects[i]) < MaxFailures THEN Outcomes ELSE {"ok"}

\* first await of a plan, and the await after op; end when none is left
PlanStart(plan, end) == IF plan = <<>> THEN end ELSE plan[1]

PlanNext(plan, op, end) ==
    LET k == CHOOSE n \in 1 .. Len(plan) : plan[n] = op
    IN  IF k = Len(plan) THEN end ELSE plan[k + 1]

(***************************************************************************)
(* Discord: on_message.                                                    *)
(***************************************************************************)
\* variant: the bypass-role check is missing
DiscordScope_no_bypass(m) ==
    IF ~AUTO_MODERATE_MESSAGES THEN "disabled"
    ELSE IF AUTO_MODERATE_IGNORE_BOTS /\ m.author_bot THEN "bot"
    ELSE IF m.guild = 0 THEN "dm"
    ELSE IF m.content = "" THEN "empty"
    ELSE IF ALLOWED_GUILD_IDS # {} /\ m.guild \notin ALLOWED_GUILD_IDS THEN "guild"
    ELSE IF AUTO_MODERATE_INCLUDED_CHANNELS # {}
               /\ m.channel \notin AUTO_MODERATE_INCLUDED_CHANNELS THEN "not_included"
    ELSE IF AUTO_MODERATE_INCLUDED_CHANNELS = {}
               /\ m.channel \in AUTO_MODERATE_EXCLUDED_CHANNELS THEN "excluded"
    ELSE ""

\* variant: the exclude list is consulted whatever the include list holds
DiscordScope_exclude_always(m) ==
    IF ~AUTO_MODERATE_MESSAGES THEN "disabled"
    ELSE IF AUTO_MODERATE_IGNORE_BOTS /\ m.author_bot THEN "bot"
    ELSE IF m.guild = 0 THEN "dm"
    ELSE IF m.content = "" THEN "empty"
    ELSE IF ALLOWED_GUILD_IDS # {} /\ m.guild \notin ALLOWED_GUILD_IDS THEN "guild"
    ELSE IF AUTO_MODERATE_INCLUDED_CHANNELS # {}
               /\ m.channel \notin AUTO_MODERATE_INCLUDED_CHANNELS THEN "not_included"
    ELSE IF m.channel \in AUTO_MODERATE_EXCLUDED_CHANNELS THEN "excluded"
    ELSE IF AUTO_MODERATE_BYPASS_ROLES # {}
               /\ \E role_id \in AUTO_MODERATE_BYPASS_ROLES : role_id \in m.roles
         THEN "bypass"
    ELSE ""

\* the checks before the API call; "" when the message is to be moderated
DiscordScope(m) ==
    IF ~AUTO_MODERATE_MESSAGES THEN "disabled"
    ELSE IF AUTO_MODERATE_IGNORE_BOTS /\ m.author_bot THEN "bot"
    ELSE IF m.guild = 0 THEN "dm"
    ELSE IF m.content = "" THEN "empty"
    ELSE IF ALLOWED_GUILD_IDS # {} /\ m.guild \notin ALLOWED_GUILD_IDS THEN "guild"
    ELSE IF AUTO_MODERATE_INCLUDED_CHANNELS # {}
               /\ m.channel \notin AUTO_MODERATE_INCLUDED_CHANNELS THEN "not_included"
    ELSE IF AUTO_MODERATE_INCLUDED_CHANNELS = {}
               /\ m.channel \in AUTO_MODERATE_EXCLUDED_CHANNELS THEN "excluded"
    ELSE IF AUTO_MODERATE_BYPASS_ROLES # {}
               /\ \E role_id \in AUTO_MODERATE_BYPASS_ROLES : role_id \in m.roles
         THEN "bypass"
    ELSE ""

\* variant: only the status ALLOWED ends the handler
DiscordVerdictCheck_allowed_only(r) ==
    IF Get(r, "error", FALSE) THEN "api_error"
    ELSE IF Get(r, "status", "ALLOWED") = "ALLOWED" THEN "status"
    ELSE IF ~severity_meets_threshold(Get(r, "severity", "LOW"),
                                      AUTO_MODERATE_MIN_SEVERITY) THEN "severity"
    ELSE ""

\* the checks on the returned dict; "" when the action is to be taken
DiscordVerdictCheck(r) ==
    IF Get(r, "error", FALSE) THEN "api_error"
    ELSE IF Get(r, "status", "ALLOWED") \notin {"BLOCKED", "DISALLOWED"} THEN "status"
    ELSE IF ~severity_meets_threshold(Get(r, "severity", "LOW"),
                                      AUTO_MODERATE_MIN_SEVERITY) THEN "severity"
    ELSE ""

\* variant: the warn action also deletes the message
DiscordPlan_warn_deletes(action) ==
    CASE action = "delete" -> <<"delete">>
      [] action = "warn" -> <<"reply", "delete">>
      [] action = "delete_and_warn" -> <<"dm", "notice", "delete">>
      [] action = "timeout" -> <<"timeout", "dm", "notice", "delete">>
      [] action = "ban" -> <<"ban", "dm", "notice", "delete">>
      [] OTHER -> <<>>

\* the awaited platform calls of each action, in code order
DiscordPlan(action) ==
    CASE action = "delete" -> <<"delete">>
      [] action = "warn" -> <<"reply">>
      [] action = "delete_and_warn" -> <<"dm", "notice", "delete">>
      [] action = "timeout" -> <<"timeout", "dm", "notice", "delete">>
      [] action = "ban" -> <<"ban", "dm", "notice", "delete">>
      [] OTHER -> <<>>

DiscordOps == {"delete", "reply", "dm", "notice", "timeout", "ban"}

\* the try/except around the single call op of the action
DiscordCaught(action, op, exc) ==
    CASE op \in {"timeout", "ban", "dm"} -> exc = "Forbidden"
      [] op = "notice" -> TRUE
      [] op = "delete" -> action = "ban" /\ exc = "NotFound"
      [] OTHER -> FALSE

\* where on_message goes once the action block is left normally
DiscordAfterActions ==
    IF AUTO_MODERATE_LOG_CHANNEL_ID # 0 THEN "audit" ELSE "done"

DiscordTimeoutDays(r) ==
    LET banned_days == GetOpt(r, "banned_days")
    IN  IF Truthy(banned_days)
        THEN Min(Unbox(banned_days), AUTO_MODERATE_MAX_TIMEOUT_DAYS)
        ELSE AUTO_MODERATE_DEFAULT_TIMEOUT_DAYS

\* on_message up to the API call
DiscordOnMessage(i) ==
    /\ platform = "discord" /\ i \in inbox /\ pc[i] = "idle"
    /\ \E m \in Incoming :
        LET why == DiscordScope(m)
        IN  /\ msg' = [msg EXCEPT ![i] = m]
            /\ skip' = [skip EXCEPT ![i] = why]
            /\ pc' = [pc EXCEPT ![i] = IF why = "" THEN "api" ELSE "done"]
            /\ requests' = [requests EXCEPT ![i] = IF why = "" THEN @ + 1 ELSE @]
    /\ inbox' = inbox \ {i}
    /\ UNCHANGED <<config, traffic, command, assembly, response, result, action_taken,
                 effects, raised, debug_file, audit_action, later>>

\* variant: a reply other than 200 makes the handler send the request again
DiscordApiReturn_retry(i) ==
    /\ platform = "discord" /\ pc[i] = "api"
    /\ \E resp \in ApiReplies :
      \E io \in IF resp.code = 0 THEN {""} ELSE DebugWrites :
        LET write == WriteDebugFile(io)
            call == IF write.raises # "" THEN write
                    ELSE DiscordCallNovaModeration(resp)
            why == DiscordVerdictCheck(call.value)
            again == resp.code \notin {0, 200} /\ requests[i] < 2
        IN  /\ response' = [response EXCEPT ![i] = resp]
            /\ debug_file' = [debug_file EXCEPT ![i] = io]
            /\ requests' = [requests EXCEPT ![i] = IF again THEN @ + 1 ELSE @]
            /\ IF again
               THEN UNCHANGED <<pc, skip, result, action_taken>>
               ELSE IF call.raises # ""
               THEN /\ skip' = [skip EXCEPT ![i] = "api_exception"]
                    /\ pc' = [pc EXCEPT ![i] = "done"]
                    /\ UNCHANGED <<result, action_taken>>
               ELSE /\ result' = [result EXCEPT ![i] = call.value]
                    /\ skip' = [skip EXCEPT ![i] = why]
                    /\ IF why # ""
                       THEN /\ pc' = [pc EXCEPT ![i] = "done"]
                            /\ UNCHANGED action_taken
                       ELSE /\ pc' = [pc EXCEPT ![i] =
                                   PlanStart(DiscordPlan(AUTO_MODERATE_ACTION),
                                             DiscordAfterActions)]
                            /\ action_taken' =
                                   [action_taken EXCEPT ![i] = AUTO_MODERATE_ACTION]
    /\ UNCHANGED <<config, traffic, command, assembly, inbox, msg, effects, raised,
                 audit_action, later>>

\* call_nova_moderation returns or raises; on_message decides
DiscordApiReturn(i) ==
    /\ platform = "discord" /\ pc[i] = "api"
    /\ \E resp \in ApiReplies :
      \E io \in IF resp.code = 0 THEN {""} ELSE DebugWrites :
        LET write == WriteDebugFile(io)
            call == IF write.raises # "" THEN write
                    ELSE DiscordCallNovaModeration(resp)
            why == DiscordVerdictCheck(call.value)
        IN  /\ response' = [response EXCEPT ![i] = resp]
            /\ debug_file' = [debug_file EXCEPT ![i] = io]
            /\ IF call.raises # ""
               THEN /\ skip' = [skip EXCEPT ![i] = "api_exception"]
                    /\ pc' = [pc EXCEPT ![i] = "done"]
                    /\ UNCHANGED <<result, action_taken>>
               ELSE /\ result' = [result EXCEPT ![i] = call.value]
                    /\ skip' = [skip EXCEPT ![i] = why]
                    /\ IF why # ""
                       THEN /\ pc' = [pc EXCEPT ![i] = "done"]
                            /\ UNCHANGED action_taken
                       ELSE /\ pc' = [pc EXCEPT ![i] =
                                   PlanStart(DiscordPlan(AUTO_MODERATE_ACTION),
                                             DiscordAfterActions)]
                            /\ action_taken' =
                                   [action_taken EXCEPT ![i] = AUTO_MODERATE_ACTION]
    /\ UNCHANGED <<config, traffic, command, assembly, inbox, msg, effects, raised,
                 requests, audit_action, later>>

\* variant: action_taken is one module-level name that every run overwrites
DiscordSideEffect_shared_action_taken(i) ==
    /\ platform = "discord" /\ pc[i] \in DiscordOps
    /\ \E o \in MayHappen(i) :
        LET op == pc[i]
            days == IF op = "timeout" THEN DiscordTimeoutDays(result[i]) ELSE 0
            goes_on == o = "ok" \/ DiscordCaught(AUTO_MODERATE_ACTION, op, o)
        IN  /\ effects' = [effects EXCEPT ![i] = Append(@, Effect(op, o, days))]
            /\ action_taken' =
                 [j \in MessageIds |->
                    IF op = "timeout" /\ o = "ok"
                    THEN "timeout (" \o ToString(days) \o "d)" ELSE action_taken[i]]
            /\ pc' = [pc EXCEPT ![i] =
                 CASE goes_on -> PlanNext(DiscordPlan(AUTO_MODERATE_ACTION), op,
                                          DiscordAfterActions)
                   [] ~goes_on /\ o = "NotFound" -> DiscordAfterActions
                   [] OTHER -> "done"]
            /\ raised' = [raised EXCEPT ![i] =
                 IF ~goes_on /\ o \notin {"Forbidden", "NotFound"} THEN o ELSE @]
    /\ UNCHANGED <<config, traffic, command, assembly, inbox, msg, response, result,
                 skip, requests, debug_file, audit_action, later>>

\* variant: the outer handler returns on NotFound as it does on Forbidden
DiscordSideEffect_notfound_returns(i) ==
    /\ platform = "discord" /\ pc[i] \in DiscordOps
    /\ \E o \in MayHappen(i) :
        LET op == pc[i]
            days == IF op = "timeout" THEN DiscordTimeoutDays(result[i]) ELSE 0
            goes_on == o = "ok" \/ DiscordCaught(AUTO_MODERATE_ACTION, op, o)
        IN  /\ effects' = [effects EXCEPT ![i] = Append(@, Effect(op, o, days))]
            /\ action_taken' =
                 [action_taken EXCEPT ![i] =
                    IF op = "timeout" /\ o = "ok"
                    THEN "timeout (" \o ToString(days) \o "d)" ELSE @]
            /\ pc' = [pc EXCEPT ![i] =
                 CASE goes_on -> PlanNext(DiscordPlan(AUTO_MODERATE_ACTION), op,
                                          DiscordAfterActions)
                   [] OTHER -> "done"]
            /\ raised' = [raised EXCEPT ![i] =
                 IF ~goes_on /\ o \notin {"Forbidden", "NotFound"} THEN o ELSE @]
    /\ UNCHANGED <<config, traffic, command, assembly, inbox, msg, response, result,
                 skip, requests, debug_file, audit_action, later>>

\* one awaited platform call of the action block, with its exception handling
DiscordSideEffect(i) ==
    /\ platform = "discord" /\ pc[i] \in DiscordOps
    /\ \E o \in MayHappen(i) :
        LET op == pc[i]
            days == IF op = "timeout" THEN DiscordTimeoutDays(result[i]) ELSE 0
            goes_on == o = "ok" \/ DiscordCaught(AUTO_MODERATE_ACTION, op, o)
        IN  /\ effects' = [effects EXCEPT ![i] = Append(@, Effect(op, o, days))]
            /\ action_taken' =
                 [action_taken EXCEPT ![i] =
                    IF op = "timeout" /\ o = "ok"
                    THEN "timeout (" \o ToString(days) \o "d)" ELSE @]
            /\ pc' = [pc EXCEPT ![i] =
                 CASE goes_on -> PlanNext(DiscordPlan(AUTO_MODERATE_ACTION), op,
                                          DiscordAfterActions)
                   [] ~goes_on /\ o = "NotFound" -> DiscordAfterActions
                   [] OTHER -> "done"]
            /\ raised' = [raised EXCEPT ![i] =
                 IF ~goes_on /\ o \notin {"Forbidden", "NotFound"} THEN o ELSE @]
    /\ UNCHANGED <<config, traffic, command, assembly, inbox, msg, response, result,
                 skip, requests, debug_file, audit_action, later>>

\* action_labels of create_auto_mod_log_embed
action_labels ==
    [delete |-> "Deleted", warn |-> "Warned", log |-> "Logged Only",
     delete_and_warn |-> "Deleted + DM Warning", timeout |-> "Deleted + Timeout",
     ban |-> "Deleted + Banned"]

\* the "Action Taken" field of the log embed
ActionTakenField(taken) == Get(action_labels, taken, taken)

\* variant: a failed send to the log channel leaves the handler
DiscordAuditLog_raises(i) ==
    /\ platform = "discord" /\ pc[i] = "audit"
    /\ \E o \in MayHappen(i) \cup
                 (IF Failures(effects[i]) < MaxFailures THEN {"unresolved"} ELSE {}) :
        /\ effects' = [effects EXCEPT ![i] = Append(@, Effect("audit", o, 0))]
        /\ raised' = [raised EXCEPT ![i] = IF o \in PlatformErrors THEN o ELSE @]
        /\ audit_action' = [audit_action EXCEPT ![i] =
               IF o = "ok" THEN ActionTakenField(action_taken[i]) ELSE @]
    /\ pc' = [pc EXCEPT ![i] = "done"]
    /\ UNCHANGED <<config, traffic, command, assembly, inbox, msg, response, result,
                 skip, action_taken, requests, debug_file, later>>

\* the audit-log post: "unresolved" when bot.get_channel returns None and
\* nothing is sent; every exception of the send is caught
DiscordAuditLog(i) ==
    /\ platform = "discord" /\ pc[i] = "audit"
    /\ \E o \in MayHappen(i) \cup
                 (IF Failures(effects[i]) < MaxFailures THEN {"unresolved"} ELSE {}) :
        /\ effects' = [effects EXCEPT ![i] = Append(@, Effect("audit", o, 0))]
        /\ audit_action' = [audit_action EXCEPT ![i] =
               IF o = "ok" THEN ActionTakenField(action_taken[i]) ELSE @]
    /\ pc' = [pc EXCEPT ![i] = "done"]
    /\ UNCHANGED <<config, traffic, command, assembly, inbox, msg, response, result,
                 skip, action_taken, raised, requests, debug_file, later>>


(***************************************************************************)
(* Telegram: handle_message.                                               *)
(***************************************************************************)
\* variant: the chat whitelist is not consulted
TelegramScope_any_chat(m) ==
    IF ~AUTO_MODERATE_MESSAGES THEN "disabled"
    ELSE IF m.text = "" THEN "no_text"
    ELSE ""

\* the checks before the API call; "" when the message is to be evaluated
TelegramScope(m) ==
    IF ~AUTO_MODERATE_MESSAGES THEN "disabled"
    ELSE IF m.text = "" THEN "no_text"
    ELSE IF ALLOWED_CHAT_IDS # {} /\ m.chat \notin ALLOWED_CHAT_IDS THEN "chat"
    ELSE ""

TelegramVerdictCheck(r) ==
    IF Get(r, "error", FALSE) THEN "api_error"
    ELSE IF Get(r, "status", "ALLOWED") \notin {"BLOCKED", "DISALLOWED"} THEN "status"
    ELSE IF TelegramBelowThreshold(Get(r, "severity", "LOW"),
                                   AUTO_MODERATE_MIN_SEVERITY) THEN "severity"
    ELSE ""

\* the awaited platform calls of each action, in code order
TelegramPlan(action) ==
    CASE action = "delete" -> <<"delete">>
      [] action = "warn" -> <<"reply">>
      [] action = "delete_and_warn" -> <<"delete", "notice", "dm">>
      [] action = "timeout" -> <<"delete", "restrict", "notice">>
      [] action = "ban" -> <<"delete", "ban", "notice">>
      [] OTHER -> <<>>

TelegramOps == {"delete", "reply", "notice", "dm", "restrict", "ban"}

\* only the private notice has a try/except of its own
TelegramCaught(op, exc) == op = "dm"

\* result.get("banned_days", default): None when the key holds null
TelegramBannedDays(r) ==
    Get(r, "banned_days", Num(AUTO_MODERATE_DEFAULT_TIMEOUT_DAYS))

\* min(days, AUTO_MODERATE_MAX_TIMEOUT_DAYS), defined when days is a number
TelegramTimeoutDays(r) ==
    Min(Unbox(TelegramBannedDays(r)), AUTO_MODERATE_MAX_TIMEOUT_DAYS)

\* handle_message up to the API call
TelegramHandleMessage(i) ==
    /\ platform = "telegram" /\ i \in inbox /\ pc[i] = "idle"
    /\ \E m \in Incoming :
        LET why == TelegramScope(m)
        IN  /\ msg' = [msg EXCEPT ![i] = m]
            /\ skip' = [skip EXCEPT ![i] = why]
            /\ pc' = [pc EXCEPT ![i] = IF why = "" THEN "api" ELSE "done"]
            /\ requests' = [requests EXCEPT ![i] = IF why = "" THEN @ + 1 ELSE @]
    /\ inbox' = inbox \ {i}
    /\ UNCHANGED <<config, traffic, command, assembly, response, result, action_taken,
                 effects, raised, debug_file, audit_action, later>>

\* call_nova_moderation returns or raises; an exception leaves handle_message
TelegramApiReturn(i) ==
    /\ platform = "telegram" /\ pc[i] = "api"
    /\ \E resp \in ApiReplies :
      \E io \in IF resp.code = 0 THEN {""} ELSE DebugWrites :
        LET write == WriteDebugFile(io)
            call == IF write.raises # "" THEN write
                    ELSE TelegramCallNovaModeration(resp)
            why == TelegramVerdictCheck(call.value)
        IN  /\ response' = [response EXCEPT ![i] = resp]
            /\ debug_file' = [debug_file EXCEPT ![i] = io]
            /\ IF call.raises # ""
               THEN /\ raised' = [raised EXCEPT ![i] = call.raises]
                    /\ pc' = [pc EXCEPT ![i] = "done"]
                    /\ UNCHANGED <<result, skip>>
               ELSE /\ result' = [result EXCEPT ![i] = call.value]
                    /\ skip' = [skip EXCEPT ![i] = why]
                    /\ pc' = [pc EXCEPT ![i] =
                           IF why # "" THEN "done"
                           ELSE PlanStart(TelegramPlan(AUTO_MODERATE_ACTION), "done")]
                    /\ UNCHANGED raised
    /\ UNCHANGED <<config, traffic, command, assembly, inbox, msg, action_taken,
                 effects, requests, audit_action, later>>

\* a delete_later task: the message it is to delete, named by the call that
\* returned it, the seconds it sleeps and how far it has come
Task(target, delay, state) == [target |-> target, delay |-> delay, state |-> state]

\* variant: the notice of a ban is left in the chat
CreateTasks_ban_notice_stays(op) ==
    CASE op = "reply" -> <<Task("reply", 30, "sleeping")>>
      [] op = "notice" /\ AUTO_MODERATE_ACTION # "ban"
           -> <<Task("notice", 10, "sleeping")>>
      [] OTHER -> <<>>

\* asyncio.create_task(delete_later(msg, delay)) after the warn reply (30 s) and
\* after each notice in the chat (10 s)
CreateTasks(op) ==
    CASE op = "reply" -> <<Task("reply", 30, "sleeping")>>
      [] op = "notice" -> <<Task("notice", 10, "sleeping")>>
      [] OTHER -> <<>>

\* one awaited platform call of the try block; the except clause of the block
\* ends the handler
TelegramSideEffect(i) ==
    /\ platform = "telegram" /\ pc[i] \in TelegramOps
    /\ LET op == pc[i]
       IN  IF op = "restrict" /\ IsNone(TelegramBannedDays(result[i]))
           THEN \* min(None, int) raises TypeError before the call is made
                /\ pc' = [pc EXCEPT ![i] = "done"]
                /\ UNCHANGED <<effects, later>>
           ELSE \E o \in MayHappen(i) :
                LET days == IF op = "restrict" THEN TelegramTimeoutDays(result[i]) ELSE 0
                    goes_on == o = "ok" \/ TelegramCaught(op, o)
                IN  /\ effects' = [effects EXCEPT ![i] = Append(@, Effect(op, o, days))]
                    /\ later' = [later EXCEPT ![i] =
                         IF o = "ok" THEN @ \o CreateTasks(op) ELSE @]
                    /\ pc' = [pc EXCEPT ![i] =
                         IF goes_on
                         THEN PlanNext(TelegramPlan(AUTO_MODERATE_ACTION), op, "done")
                         ELSE "done"]
    /\ UNCHANGED <<config, traffic, command, assembly, inbox, msg, response, result,
                 skip, action_taken, raised, requests, debug_file,
                 audit_action>>

\* delete_later: asyncio.sleep(delay) returns
DeleteLaterSleep(i) ==
    /\ platform = "telegram"
    /\ \E k \in 1 .. Len(later[i]) :
        /\ later[i][k].state = "sleeping"
        /\ later' = [later EXCEPT ![i][k].state = "awake"]
    /\ UNCHANGED <<config, traffic, command, assembly, inbox, pc, msg, response, result,
                 skip, action_taken, effects, raised, requests, debug_file,
                 audit_action>>

\* delete_later: message.delete() on the notice, any exception swallowed
DeleteLaterDelete(i) ==
    /\ platform = "telegram"
    /\ \E k \in 1 .. Len(later[i]) :
        /\ later[i][k].state = "awake"
        /\ \E o \in Outcomes :
            later' = [later EXCEPT ![i][k].state =
                         IF o = "ok" THEN "deleted" ELSE "swallowed"]
    /\ UNCHANGED <<config, traffic, command, assembly, inbox, pc, msg, response, result,
                 skip, action_taken, effects, raised, requests, debug_file,
                 audit_action>>

(***************************************************************************)
(* Specification.                                                          *)
(***************************************************************************)
Next ==
    \E i \in MessageIds :
        \/ DiscordOnMessage(i)
        \/ DiscordApiReturn(i)
        \/ DiscordSideEffect(i)
        \/ DiscordAuditLog(i)
        \/ TelegramHandleMessage(i)
        \/ TelegramApiReturn(i)
        \/ TelegramSideEffect(i)
        \/ DeleteLaterSleep(i)
        \/ DeleteLaterDelete(i)

Spec == Init /\ [][Next]_vars


(***************************************************************************)
(* Two message events whose handlers interleave at their awaits.           *)
(***************************************************************************)
\* every action with the scope settings as shipped, with and without a log
\* channel
ShippedButAction(c) ==
    /\ ShippedScope(c) /\ c.chats = {}
    /\ c.min_severity = "LOW" /\ c.default_days = 1

InitPair ==
    /\ platform \in {"discord", "telegram"}
    /\ \E c \in IF platform = "discord" THEN DiscordConfigs ELSE TelegramConfigs :
            ShippedButAction(c) /\ Configured(c)
    /\ InitRuns(MessageIds)
    /\ NoCall
    /\ NoCommand
    /\ traffic = "sample"

SpecPair == InitPair /\ [][Next]_vars


(***************************************************************************)
(* The Telegram bot with its delete_later tasks.  The event loop resumes a  *)
(* task when its sleep has elapsed, and the deletion it awaits returns or   *)
(* raises: both steps are taken once they can be.                           *)
(***************************************************************************)
InitLater ==
    /\ platform = "telegram"
    /\ \E c \in TelegramConfigs : ShippedButAction(c) /\ Configured(c)
    /\ InitRuns(MessageIds)
    /\ NoCall
    /\ NoCommand
    /\ traffic = "sample"

NextLater ==
    \E i \in MessageIds :
        \/ TelegramHandleMessage(i)
        \/ TelegramApiReturn(i)
        \/ TelegramSideEffect(i)
        \/ DeleteLaterSleep(i)
        \/ DeleteLaterDelete(i)

SpecLater ==
    /\ InitLater /\ [][NextLater]_vars
    /\ \A i \in MessageIds :
          WF_vars(DeleteLaterSleep(i)) /\ WF_vars(DeleteLaterDelete(i))


(***************************************************************************)
(* One call of call_nova_moderation with the files as they are on disk.    *)
(***************************************************************************)
\* files that miss, cannot be read, hold comments only, hold less than the
\* cap, exactly the cap, and more
SampleFiles(max_chars) ==
    {Missing, Unreadable,
     File(<<Line(0, "#", 8)>>),
     File(<<Line(0, "text", 8)>>),
     File(<<Line(0, "text", max_chars)>>),
     File(<<Line(0, "#policy", max_chars), Line(0, "text", 8)>>)}

InitCall ==
    /\ platform \in {"discord", "telegram"}
    /\ \E c \in IF platform = "discord" THEN DiscordConfigs ELSE TelegramConfigs :
            /\ ShippedScope(c) /\ ShippedEnforcement(c)
            /\ c.chats = {} /\ c.default_days = 1
            /\ Configured(c)
    /\ InitRuns({})
    /\ NoCommand
    /\ traffic = "any"
    /\ \/ /\ USE_POLICY_FILE = TRUE /\ USE_INSTRUCTIONS_FILE = TRUE
          /\ policy_txt \in Files({8, POLICY_MAX_CHARS})
          /\ instructions_txt = Missing
          /\ call_args = DefaultArgs
       \/ /\ USE_POLICY_FILE = TRUE /\ USE_INSTRUCTIONS_FILE = TRUE
          /\ policy_txt = Missing
          /\ instructions_txt \in Files({8, INSTRUCTIONS_MAX_CHARS})
          /\ call_args = DefaultArgs
       \/ /\ USE_POLICY_FILE \in BOOLEAN /\ USE_INSTRUCTIONS_FILE \in BOOLEAN
          /\ policy_txt \in SampleFiles(POLICY_MAX_CHARS)
          /\ instructions_txt \in SampleFiles(INSTRUCTIONS_MAX_CHARS)
          /\ call_args \in IF platform = "discord" THEN DiscordCallArgs
                           ELSE {DefaultArgs}
    /\ call_pc = "pending"
    /\ policy_loaded = NotCalled /\ instructions_loaded = NotCalled
    /\ sources = <<>> /\ payload = EmptyDict

NextCall == DiscordCallNovaModerationPost \/ TelegramCallNovaModerationPost

SpecCall == InitCall /\ [][NextCall]_vars


(***************************************************************************)
(* The /moderate command of both bots.                                     *)
(***************************************************************************)
\* the longest content the command accepts
MaxCommandChars == 50000

\* variant: content of exactly the limit is rejected too
content_too_long_inclusive(content) == TextLen(content) >= MaxCommandChars

\* len(content) > 50000
content_too_long(content) == TextLen(content) > MaxCommandChars

\* " ".join(context.args)
RECURSIVE join_args(_)
join_args(args) ==
    IF args = <<>> THEN <<>>
    ELSE IF Len(args) = 1 THEN Head(args)
    ELSE Head(args) \o Run(" ", 1) \o join_args(Tail(args))

\* the content shown in the report: content[:200], then "..."
content_preview(content) == Prefix(content, 200)

\* a reply as recorded in cmd_replies
Reply(op, out, preview) == [op |-> op, out |-> out, preview |-> preview]

\* a word of n characters
Word(n) == Run("word", n)

\* interactions: content of one character, a little more than the preview,
\* the limit, and one more than the limit
DiscordInteractions ==
    {[content |-> Word(n)] : n \in {1, 201, MaxCommandChars, MaxCommandChars + 1}}

\* updates: without a message, without arguments, one short word, two words
\* that join to the limit, two that join to one more, one word over the limit
TelegramUpdates ==
    [message : BOOLEAN,
     args : {<<>>, <<Word(1)>>, <<Word(150), Word(150)>>,
             <<Word(25000), Word(24999)>>, <<Word(25000), Word(25000)>>,
             <<Word(MaxCommandChars + 1)>>}]

\* the call of the command: content only, files as configured
CommandCallArgs(content) == [DefaultArgs EXCEPT !.content = content]

\* /moderate up to the reply or call that follows interaction.response.defer
DiscordModerate ==
    /\ platform = "discord" /\ cmd_pc = "received"
    /\ \E o \in Outcomes :
        /\ cmd_replies' = Append(cmd_replies, Reply("defer", o, <<>>))
        /\ IF o # "ok"
           THEN cmd_pc' = "raised" /\ UNCHANGED <<call_args, call_pc>>
           ELSE IF content_too_long(cmd_content)
           THEN cmd_pc' = "error" /\ UNCHANGED <<call_args, call_pc>>
           ELSE /\ cmd_pc' = "call"
                /\ call_args' = CommandCallArgs(cmd_content)
                /\ call_pc' = "pending"
    /\ UNCHANGED <<config, traffic, run, cmd_update, cmd_content,
                 USE_POLICY_FILE, USE_INSTRUCTIONS_FILE, policy_txt,
                 instructions_txt, policy_loaded, instructions_loaded, sources,
                 payload>>

\* moderate_command up to its first reply
TelegramModerateCommand ==
    /\ platform = "telegram" /\ cmd_pc = "received"
    /\ IF ~cmd_update.message
       THEN cmd_pc' = "done" /\ UNCHANGED cmd_content
       ELSE IF cmd_update.args = <<>>
       THEN cmd_pc' = "usage" /\ UNCHANGED cmd_content
       ELSE LET content == join_args(cmd_update.args)
            IN  /\ cmd_content' = content
                /\ cmd_pc' = IF content_too_long(content) THEN "error"
                             ELSE "analyzing"
    /\ UNCHANGED <<config, traffic, run, assembly, cmd_update, cmd_replies>>

\* the usage reply and the error reply, after which the handler returns
CommandReply ==
    /\ cmd_pc \in {"usage", "error"}
    /\ \E o \in Outcomes :
        /\ cmd_replies' = Append(cmd_replies, Reply(cmd_pc, o, <<>>))
        /\ cmd_pc' = IF o = "ok" THEN "done" ELSE "raised"
    /\ UNCHANGED <<config, traffic, run, assembly, cmd_update, cmd_content>>

\* reply_text("Analyzing...")
TelegramAnalyzing ==
    /\ platform = "telegram" /\ cmd_pc = "analyzing"
    /\ \E o \in Outcomes :
        /\ cmd_replies' = Append(cmd_replies, Reply("analyzing", o, <<>>))
        /\ cmd_pc' = IF o = "ok" THEN "chat_action" ELSE "raised"
    /\ UNCHANGED <<config, traffic, run, assembly, cmd_update, cmd_content>>

\* send_chat_action, then call_nova_moderation(content) begins
TelegramChatAction ==
    /\ platform = "telegram" /\ cmd_pc = "chat_action"
    /\ \E o \in Outcomes :
        /\ cmd_replies' = Append(cmd_replies, Reply("chat_action", o, <<>>))
        /\ IF o = "ok"
           THEN /\ cmd_pc' = "call"
                /\ call_args' = CommandCallArgs(cmd_content)
                /\ call_pc' = "pending"
           ELSE cmd_pc' = "raised" /\ UNCHANGED <<call_args, call_pc>>
    /\ UNCHANGED <<config, traffic, run, cmd_update, cmd_content,
                 USE_POLICY_FILE, USE_INSTRUCTIONS_FILE, policy_txt,
                 instructions_txt, policy_loaded, instructions_loaded, sources,
                 payload>>

\* call_nova_moderation returns or raises; the report is sent with
\* followup.send or status_msg.edit_text.  The Telegram report of an error
\* dict shows no content.
CommandReport ==
    /\ cmd_pc = "call" /\ call_pc = "posted"
    /\ \E resp \in ApiReplies :
      \E io \in IF resp.code = 0 THEN {""} ELSE DebugWrites :
        LET write == WriteDebugFile(io)
            call == IF write.raises # "" THEN write
                    ELSE IF platform = "discord"
                    THEN DiscordCallNovaModeration(resp)
                    ELSE TelegramCallNovaModeration(resp)
            shown == IF platform = "telegram" /\ Get(call.value, "error", FALSE)
                     THEN <<>> ELSE content_preview(cmd_content)
        IN  IF call.raises # ""
            THEN cmd_pc' = "raised" /\ UNCHANGED cmd_replies
            ELSE \E o \in Outcomes :
                    /\ cmd_replies' = Append(cmd_replies, Reply("report", o, shown))
                    /\ cmd_pc' = IF o = "ok" THEN "done" ELSE "raised"
    /\ UNCHANGED <<config, traffic, run, assembly, cmd_update, cmd_content>>

\* a command arrives; the files are as they are on disk
InitCommand ==
    /\ platform \in {"discord", "telegram"}
    /\ \E c \in IF platform = "discord" THEN DiscordConfigs ELSE TelegramConfigs :
            /\ ShippedScope(c) /\ ShippedEnforcement(c)
            /\ c.chats = {} /\ c.default_days = 1
            /\ Configured(c)
    /\ InitRuns({})
    /\ traffic = "sample"
    /\ USE_POLICY_FILE = TRUE /\ USE_INSTRUCTIONS_FILE = TRUE
    /\ policy_txt \in SampleFiles(POLICY_MAX_CHARS)
    /\ instructions_txt \in {Missing, File(<<Line(0, "text", 8)>>)}
    /\ call_args = DefaultArgs /\ call_pc = "idle"
    /\ policy_loaded = NotCalled /\ instructions_loaded = NotCalled
    /\ sources = <<>> /\ payload = EmptyDict
    /\ cmd_update \in IF platform = "discord" THEN DiscordInteractions
                      ELSE TelegramUpdates
    /\ cmd_pc = "received"
    /\ cmd_content = IF platform = "discord" THEN cmd_update.content ELSE <<>>
    /\ cmd_replies = <<>>

NextCommand ==
    \/ DiscordModerate
    \/ TelegramModerateCommand
    \/ CommandReply
    \/ TelegramAnalyzing
    \/ TelegramChatAction
    \/ DiscordCallNovaModerationPost
    \/ TelegramCallNovaModerationPost
    \/ CommandReport

SpecCommand == InitCommand /\ [][NextCommand]_vars


(***************************************************************************)
(* Properties.                                                             *)
(***************************************************************************)
\* the API call of run i has completed
Returned(i) == response[i] # EmptyDict

\* r is a verdict whose status asks for enforcement
BlockedVerdict(r) ==
    /\ "error" \notin DOMAIN r
    /\ "status" \in DOMAIN r
    /\ r["status"] \in {"BLOCKED", "DISALLOWED"}

\* the severity ranking of the specification
Rank(s) ==
    CASE s = "LOW" -> 1
      [] s = "MEDIUM" -> 2
      [] s = "HIGH" -> 3
      [] s = "CRITICAL" -> 4
      [] OTHER -> 0

MuteOps == {"timeout", "restrict"}

Attempted(i, op) == \E k \in 1 .. Len(effects[i]) : effects[i][k].op = op

\* C1: a blocked verdict of severity s passes the threshold check of on_message
\* (severity_meets_threshold) and of handle_message (inline) exactly when
\* rank(s) >= rank(minimum), unknown strings ranking 0.
C1_SeverityThreshold ==
    \A i \in MessageIds :
        (Returned(i) /\ BlockedVerdict(result[i]) /\ "severity" \in DOMAIN result[i])
        => (skip[i] = ""
              <=> Rank(result[i]["severity"]) >= Rank(AUTO_MODERATE_MIN_SEVERITY))

\* a Telegram run acted on a verdict whose severity equals the threshold
C1_Witness ==
    \E i \in MessageIds :
        /\ platform = "telegram" /\ BlockedVerdict(result[i])
        /\ Get(result[i], "severity", "") = "HIGH"
        /\ AUTO_MODERATE_MIN_SEVERITY = "HIGH"
        /\ skip[i] = "" /\ effects[i] # <<>>

\* C2: a verdict whose status is ALLOWED, any value other than BLOCKED or
\* DISALLOWED, or absent never leads to a platform call, whatever the severity
\* and the configured action.
C2_NotBlockedNoEffect ==
    \A i \in MessageIds :
        ~BlockedVerdict(result[i]) => effects[i] = <<>> /\ pc[i] \in {"idle", "api", "done"}

\* an ALLOWED verdict of severity CRITICAL was handled with the ban action
C2_Witness ==
    \E i \in MessageIds :
        /\ platform = "discord" /\ AUTO_MODERATE_ACTION = "ban"
        /\ Returned(i) /\ pc[i] = "done" /\ skip[i] = "status"
        /\ result[i] = Verdict({"status", "severity"}, "ALLOWED", "CRITICAL", None)

\* the four scope rules of on_message
DiscordExcluded(m) ==
    \/ AUTO_MODERATE_IGNORE_BOTS /\ m.author_bot
    \/ ALLOWED_GUILD_IDS # {} /\ m.guild \notin ALLOWED_GUILD_IDS
    \/ AUTO_MODERATE_INCLUDED_CHANNELS # {}
          /\ m.channel \notin AUTO_MODERATE_INCLUDED_CHANNELS
    \/ AUTO_MODERATE_INCLUDED_CHANNELS = {}
          /\ m.channel \in AUTO_MODERATE_EXCLUDED_CHANNELS
    \/ m.roles \cap AUTO_MODERATE_BYPASS_ROLES # {}

\* C3: on_message performs no platform call, and asks for no verdict, on a
\* message excluded by the bot, guild, channel or bypass-role rule.
C3_DiscordScopeRules ==
    \A i \in MessageIds :
        (platform = "discord" /\ msg[i] # EmptyDict /\ DiscordExcluded(msg[i]))
        => effects[i] = <<>> /\ pc[i] = "done" /\ requests[i] = 0

\* a guild message with text whose author holds a bypass role was handled
C3_Witness ==
    \E i \in MessageIds :
        /\ platform = "discord" /\ msg[i] # EmptyDict /\ pc[i] = "done"
        /\ ~msg[i].author_bot /\ msg[i].guild # 0 /\ msg[i].content # ""
        /\ msg[i].roles \cap AUTO_MODERATE_BYPASS_ROLES # {}
        /\ skip[i] = "bypass"

\* C4: handle_message performs no platform call on a message written by a bot
\* account, nor on a message of a chat outside a non-empty ALLOWED_CHAT_IDS.
C4_TelegramScopeRules ==
    \A i \in MessageIds :
        (/\ platform = "telegram" /\ msg[i] # EmptyDict
         /\ \/ msg[i].author_bot
            \/ ALLOWED_CHAT_IDS # {} /\ msg[i].chat \notin ALLOWED_CHAT_IDS)
        => effects[i] = <<>>

\* C5: an HTTP status other than 200 makes call_nova_moderation return an error
\* result, which the handler treats neither as an allowed nor as a blocked
\* verdict: it ends without a platform call.
C5_Non200IsError ==
    \A i \in MessageIds :
        (Returned(i) /\ response[i].code \notin {0, 200})
        => /\ Get(result[i], "error", FALSE)
           /\ "status" \notin DOMAIN result[i]
           /\ skip[i] = "api_error" /\ pc[i] = "done"
           /\ effects[i] = <<>> /\ raised[i] = ""

\* a status 500 whose body is a blocked CRITICAL verdict was handled
C5_Witness ==
    \E i \in MessageIds :
        /\ Returned(i) /\ response[i].code = 500 /\ response[i].text.json
        /\ BlockedVerdict(response[i].text.value)
        /\ pc[i] = "done"

\* C6: a 200 response whose body is not JSON makes call_nova_moderation return
\* an error result instead of raising, and the handler ends without an
\* exception and without a platform call.
C6_UnparsableIsError ==
    \A i \in MessageIds :
        (Returned(i) /\ response[i] = [code |-> 200, text |-> NotJson])
        => /\ Get(result[i], "error", FALSE)
           /\ raised[i] = ""
           /\ effects[i] = <<>>

\* C7: every mute or restriction applied lasts at least 1 day and at most
\* AUTO_MODERATE_MAX_TIMEOUT_DAYS days.
C7_TimeoutDaysBounded ==
    \A i \in MessageIds : \A k \in 1 .. Len(effects[i]) :
        (effects[i][k].op \in MuteOps /\ effects[i][k].out = "ok")
        => /\ effects[i][k].days >= 1
           /\ effects[i][k].days <= AUTO_MODERATE_MAX_TIMEOUT_DAYS

\* min(banned_days or default, maximum)
ExpectedTimeoutDays(r) ==
    LET banned_days == GetOpt(r, "banned_days")
    IN  Min(IF Truthy(banned_days) THEN Unbox(banned_days)
            ELSE AUTO_MODERATE_DEFAULT_TIMEOUT_DAYS,
            AUTO_MODERATE_MAX_TIMEOUT_DAYS)

\* C8: the timeout action mutes for min(D, maximum) days, D being banned_days
\* when present and non-zero and the default otherwise; an absent, null or zero
\* banned_days yields the default, not a failure.
C8_TimeoutDuration ==
    \A i \in MessageIds :
        /\ \A k \in 1 .. Len(effects[i]) :
              (effects[i][k].op \in MuteOps /\ effects[i][k].out = "ok")
              => effects[i][k].days = ExpectedTimeoutDays(result[i])
        /\ (/\ platform = "telegram" /\ AUTO_MODERATE_ACTION = "timeout"
            /\ pc[i] = "done" /\ effects[i] # <<>>
            /\ effects[i][1] = Effect("delete", "ok", 0))
           => Attempted(i, "restrict")

\* C9: a BLOCKED verdict without a severity ranks 0: with a minimum severity of
\* LOW, MEDIUM, HIGH or CRITICAL no platform call is made.
C9_AbsentSeverityNoAction ==
    \A i \in MessageIds :
        (/\ Returned(i) /\ BlockedVerdict(result[i])
         /\ "severity" \notin DOMAIN result[i]
         /\ AUTO_MODERATE_MIN_SEVERITY \in {"LOW", "MEDIUM", "HIGH", "CRITICAL"})
        => effects[i] = <<>>

\* C10: when on_message has run delete_and_warn, timeout or ban, no exception
\* has left it, every platform call of the action was attempted, and the
\* audit-log post was attempted when a log channel is configured.
C10_DiscordSideEffectsIndependent ==
    \A i \in MessageIds :
        (/\ platform = "discord" /\ pc[i] = "done"
         /\ Returned(i) /\ BlockedVerdict(result[i]) /\ skip[i] = ""
         /\ AUTO_MODERATE_ACTION \in {"delete_and_warn", "timeout", "ban"})
        => /\ raised[i] = ""
           /\ \A k \in 1 .. Len(DiscordPlan(AUTO_MODERATE_ACTION)) :
                 Attempted(i, DiscordPlan(AUTO_MODERATE_ACTION)[k])
           /\ AUTO_MODERATE_LOG_CHANNEL_ID # 0 => Attempted(i, "audit")


\* C11: when handle_message has run delete_and_warn, timeout or ban, every
\* platform call of the action was attempted, whichever single call failed.
C11_TelegramSideEffectsIndependent ==
    \A i \in MessageIds :
        (/\ platform = "telegram" /\ pc[i] = "done"
         /\ Returned(i) /\ BlockedVerdict(result[i]) /\ skip[i] = ""
         /\ AUTO_MODERATE_ACTION \in {"delete_and_warn", "timeout", "ban"})
        => \A k \in 1 .. Len(TelegramPlan(AUTO_MODERATE_ACTION)) :
              Attempted(i, TelegramPlan(AUTO_MODERATE_ACTION)[k])

\* the deletion of run i found the message gone
DeleteNotFound(i) ==
    \E k \in 1 .. Len(effects[i]) : effects[i][k] = Effect("delete", "NotFound", 0)

\* C12: in on_message a deletion answered with NotFound counts as done: no
\* exception leaves the handler, the handler goes on to the audit-log step, and
\* the audit-log post is attempted when a log channel is configured.
C12_DiscordDeleteNotFound ==
    \A i \in MessageIds :
        (platform = "discord" /\ DeleteNotFound(i))
        => /\ raised[i] = ""
           /\ pc[i] \in {"audit", "done"}
           /\ pc[i] = "audit" <=> (AUTO_MODERATE_LOG_CHANNEL_ID # 0
                                     /\ ~Attempted(i, "audit"))

\* a timeout run whose deletion found the message gone posted the audit entry
C12_Witness ==
    \E i \in MessageIds :
        /\ platform = "discord" /\ AUTO_MODERATE_ACTION = "timeout"
        /\ DeleteNotFound(i) /\ pc[i] = "done"
        /\ effects[i][Len(effects[i])] = Effect("audit", "ok", 0)


\* C20: the audit-log step ends on_message: whatever the lookup or the send
\* does, the step adds the audit attempt after the calls already made, changes
\* none of them and raises nothing; an audit attempt is made only with a log
\* channel configured and nothing follows it.
C20_AuditLogBestEffort ==
    [][\A i \in MessageIds :
          /\ (pc[i] = "audit" /\ pc'[i] # "audit")
             => /\ pc'[i] = "done"
                /\ raised'[i] = raised[i]
                /\ action_taken'[i] = action_taken[i]
                /\ \E o \in Outcomes \cup {"unresolved"} :
                      effects'[i] = Append(effects[i], Effect("audit", o, 0))
          /\ (\E k \in 1 .. Len(effects'[i]) : effects'[i][k].op = "audit")
             => /\ AUTO_MODERATE_LOG_CHANNEL_ID # 0
                /\ pc'[i] = "done"
                /\ effects'[i][Len(effects'[i])].op = "audit"
                /\ \A k \in 1 .. Len(effects'[i]) - 1 : effects'[i][k].op # "audit"
      ]_vars

\* the send to the log channel was refused after the ban and the deletion
\* had been performed
C20_Witness ==
    \E i \in MessageIds :
        /\ platform = "discord" /\ AUTO_MODERATE_ACTION = "ban" /\ pc[i] = "done"
        /\ Len(effects[i]) = 5
        /\ effects[i][1] = Effect("ban", "ok", 0)
        /\ effects[i][4] = Effect("delete", "ok", 0)
        /\ effects[i][5] = Effect("audit", "Forbidden", 0)
        /\ raised[i] = ""


\* what on_message / handle_message hold once call_nova_moderation has ended
\* as `call` says
CallOutcome(i, call) ==
    IF call.raises # ""
    THEN /\ result[i] = EmptyDict
         /\ IF platform = "discord"
            THEN skip[i] = "api_exception" /\ raised[i] = ""
            ELSE skip[i] = "" /\ raised[i] = call.raises
    ELSE /\ result[i] = call.value
         /\ skip[i] = IF platform = "discord" THEN DiscordVerdictCheck(call.value)
                      ELSE TelegramVerdictCheck(call.value)

\* C19: when the write to debug.txt failed, call_nova_moderation still ended
\* as the HTTP response alone determines: with the parsed verdict, the error
\* dict of a non-200 status, or the exception of an unparsable body, and with
\* no exception from the write.
C19_DebugWriteFailureHarmless ==
    \A i \in MessageIds :
        debug_file[i] = "OSError"
        => /\ response[i].code # 0
           /\ CallOutcome(i, IF platform = "discord"
                             THEN DiscordCallNovaModeration(response[i])
                             ELSE TelegramCallNovaModeration(response[i]))
           /\ raised[i] # "OSError"

\* the write failed and the blocked verdict of the response was acted upon
C19_Witness ==
    \E i \in MessageIds :
        /\ debug_file[i] = "OSError" /\ pc[i] = "done"
        /\ response[i].code = 200 /\ response[i].text.json
        /\ result[i] = response[i].text.value
        /\ BlockedVerdict(result[i])
        /\ Attempted(i, "delete")


(***************************************************************************)
(* Properties of the loaders and of the assembled request.                 *)
(***************************************************************************)
\* the filtered content of each file, before any cap is applied
FilteredPolicy ==
    join(IF platform = "discord" THEN policy_lines(policy_txt)
         ELSE text_lines(policy_txt))
FilteredInstructions ==
    join(IF platform = "discord" THEN instruction_lines(instructions_txt)
         ELSE text_lines(instructions_txt))

\* the loader was called on a file it could read
Read(loaded, file) == loaded.warning # "not called" /\ file.readable

CapRule(loaded, filtered, max_chars) ==
    /\ TextLen(filtered) > max_chars
       => /\ TextLen(loaded.content) = max_chars
          /\ loaded.warning = "truncated"
    /\ (filtered # <<>> /\ TextLen(filtered) <= max_chars)
       => /\ loaded.content = filtered
          /\ loaded.warning = "None"

\* C13: a loader given a file whose filtered content is longer than the cap
\* returns exactly cap characters and the truncation warning; given content
\* at or below the cap it returns the content itself and no warning.
C13_LoaderCap ==
    call_pc = "posted"
    => /\ Read(policy_loaded, policy_txt)
          => CapRule(policy_loaded, FilteredPolicy, POLICY_MAX_CHARS)
       /\ Read(instructions_loaded, instructions_txt)
          => CapRule(instructions_loaded, FilteredInstructions,
                     INSTRUCTIONS_MAX_CHARS)

\* load_text_file cut a policy.txt of more than 10000 characters
C13_Witness ==
    /\ platform = "telegram" /\ call_pc = "posted"
    /\ TextLen(FilteredPolicy) > POLICY_MAX_CHARS
    /\ TextLen(policy_loaded.content) = POLICY_MAX_CHARS
    /\ policy_loaded.warning = "truncated"

\* the text sent under a key of the payload, empty when the key is absent
Sent(key) == Get(payload, key, <<>>)

\* the file text, a newline and the inline text; no newline beside an absent part
FileThenInline(file_text, inline) ==
    IF file_text # <<>> /\ inline # <<>> THEN file_text \o Newline \o inline
    ELSE file_text \o inline

Listed(tag) == \E k \in 1 .. Len(sources) : sources[k] = tag

\* C14: the Discord call sends as policy the first 10000 characters of the
\* file policy, a newline and the inline policy, and as instructions the
\* first 2000 characters of the like; neither exceeds its cap, and an inline
\* text that was given is listed in sources even when none of it is sent.
C14_DiscordMergeAndCap ==
    (platform = "discord" /\ call_pc = "posted")
    => /\ Sent("policy") =
              Prefix(FileThenInline(policy_loaded.content, call_args.policy),
                     POLICY_MAX_CHARS)
       /\ Sent("instructions") =
              Prefix(FileThenInline(instructions_loaded.content,
                                    call_args.instructions),
                     INSTRUCTIONS_MAX_CHARS)
       /\ TextLen(Sent("policy")) <= POLICY_MAX_CHARS
       /\ TextLen(Sent("instructions")) <= INSTRUCTIONS_MAX_CHARS
       /\ call_args.policy # <<>> => Listed("inline policy")
       /\ call_args.instructions # <<>> => Listed("inline instructions")

\* the file policy fills the cap, so nothing of the inline policy is sent,
\* and the inline policy is listed
C14_Witness ==
    /\ platform = "discord" /\ call_pc = "posted"
    /\ TextLen(policy_loaded.content) = POLICY_MAX_CHARS
    /\ call_args.policy # <<>>
    /\ Sent("policy") = policy_loaded.content
    /\ Listed("inline policy")

\* the four sources in the order of the provenance list
SourceTags == <<"policy.txt", "instructions.txt", "inline policy", "inline instructions">>

\* the source has text to contribute: a file that is enabled, present,
\* readable and not empty after filtering, or an inline text that is not empty
Contributes(tag) ==
    CASE tag = "policy.txt" ->
            /\ call_args.use_policy_file /\ USE_POLICY_FILE
            /\ policy_txt.readable /\ FilteredPolicy # <<>>
      [] tag = "instructions.txt" ->
            /\ call_args.use_instructions_file /\ USE_INSTRUCTIONS_FILE
            /\ instructions_txt.readable /\ FilteredInstructions # <<>>
      [] tag = "inline policy" -> call_args.policy # <<>>
      [] OTHER -> call_args.instructions # <<>>

\* C15: the provenance list of the Discord call holds one tag for each
\* source with text, in the order file policy, file instructions, inline
\* policy, inline instructions, and no tag for any other source.
C15_DiscordSourcesOrder ==
    (platform = "discord" /\ call_pc = "posted")
    => sources = SelectSeq(SourceTags, Contributes)

\* a call in which the file policy and both inline texts contribute and the
\* instructions file does not
C15_Witness ==
    /\ platform = "discord" /\ call_pc = "posted"
    /\ sources = <<"policy.txt", "inline policy", "inline instructions">>
    /\ call_args.use_instructions_file /\ USE_INSTRUCTIONS_FILE
    /\ ~instructions_txt.exists

\* C16: the payload always has the key content, has the key policy exactly
\* when there is policy text from the file or inline, the key instructions
\* likewise, and never holds an empty text (either bot).
C16_PayloadKeys ==
    call_pc = "posted"
    => /\ "content" \in DOMAIN payload
       /\ DOMAIN payload \subseteq {"content", "policy", "instructions"}
       /\ "policy" \in DOMAIN payload
          <=> (policy_loaded.content # <<>> \/ call_args.policy # <<>>)
       /\ "instructions" \in DOMAIN payload
          <=> (instructions_loaded.content # <<>> \/ call_args.instructions # <<>>)
       /\ \A k \in DOMAIN payload : payload[k] # <<>>

\* the Telegram call sent instructions and, policy.txt holding comments
\* only, no policy key
C16_Witness ==
    /\ platform = "telegram" /\ call_pc = "posted"
    /\ DOMAIN payload = {"content", "instructions"}
    /\ policy_txt.readable /\ policy_txt.lines # <<>>
    /\ policy_loaded = Loaded(None, "None")

\* the runs of a text that are not blanks or newlines
IsBody(r) == r.of \notin {" ", "\n"}
Body(text) == SelectSeq(text, IsBody)

\* the line is not blank, and does not start with '#' or starts with the
\* marker, in either case of its letters
Retained(line) == line.kind \in {"text", "#policy", "#POLICY"}

\* the bodies of the lines of the file that are to be retained, in order
RetainedBodies(file) ==
    LET kept == SelectSeq(file.lines, Retained)
    IN  [k \in 1 .. Len(kept) |-> [of |-> kept[k].kind, len |-> kept[k].len]]

\* C17: what a loader returns uncut is made of exactly the lines of the file
\* that are not blank and do not start with '#' or start with '#policy', in
\* the order of the file; this for both files and both bots.
C17_LoaderKeepsMarkedLines ==
    call_pc = "posted"
    => /\ (Read(policy_loaded, policy_txt) /\ policy_loaded.warning = "None")
          => Body(policy_loaded.content) = RetainedBodies(policy_txt)
       /\ (Read(instructions_loaded, instructions_txt)
           /\ instructions_loaded.warning = "None")
          => Body(instructions_loaded.content) = RetainedBodies(instructions_txt)

\* the file gives the call nothing: it is missing, unreadable or empty after
\* filtering
NoFileText(file, filtered) == ~file.readable \/ filtered = <<>>

FileProblemRule(loaded, file, filtered, inline, key) ==
    (loaded.warning # "not called" /\ NoFileText(file, filtered))
    => /\ loaded.content = None
       /\ ~file.exists => loaded.warning = "not found"
       /\ (file.exists /\ ~file.readable) => loaded.warning = "error"
       /\ "content" \in DOMAIN payload
       /\ inline = <<>> => key \notin DOMAIN payload

\* C18: a policy or instructions file that is missing, unreadable or empty
\* after filtering yields no content, with a warning in the first two cases,
\* and the request is posted with its content and without the field of that
\* file.
C18_FileProblemsNonFatal ==
    call_pc = "posted"
    => /\ FileProblemRule(policy_loaded, policy_txt, FilteredPolicy,
                          call_args.policy, "policy")
       /\ FileProblemRule(instructions_loaded, instructions_txt,
                          FilteredInstructions, call_args.instructions,
                          "instructions")

\* policy.txt is missing, instructions.txt cannot be read, and the request
\* went out with the content alone
C18_Witness ==
    /\ call_pc = "posted" /\ platform = "discord"
    /\ ~policy_txt.exists /\ policy_loaded = Loaded(None, "not found")
    /\ instructions_txt.exists /\ ~instructions_txt.readable
    /\ instructions_loaded = Loaded(None, "error")
    /\ DOMAIN payload = {"content"}


(***************************************************************************)
(* Properties of two interleaved handler runs.                             *)
(***************************************************************************)
\* everything run i holds
RunOf(i) ==
    <<pc[i], msg[i], response[i], result[i], skip[i], action_taken[i], effects[i],
      raised[i], requests[i], debug_file[i], audit_action[i], later[i]>>

\* the platform calls of the configured action, the audit post included
WholePlan ==
    IF platform = "discord"
    THEN DiscordPlan(AUTO_MODERATE_ACTION)
         \o (IF AUTO_MODERATE_LOG_CHANNEL_ID # 0 THEN <<"audit">> ELSE <<>>)
    ELSE TelegramPlan(AUTO_MODERATE_ACTION)

\* where the call op stands in the plan, 0 when it is no call of the plan
PlaceInPlan(op) ==
    IF \E n \in 1 .. Len(WholePlan) : WholePlan[n] = op
    THEN CHOOSE n \in 1 .. Len(WholePlan) : WholePlan[n] = op
    ELSE 0

\* run i holds what its own message and its own verdict give it: no call
\* without a blocked verdict of its own, and only calls of the configured
\* action, in the order of the code
AsAlone(i) ==
    /\ (skip[i] # "" \/ ~Returned(i))
       => effects[i] = <<>> /\ action_taken[i] = ""
    /\ (Returned(i) /\ raised[i] = ""
        /\ skip[i] = "" /\ result[i] = response[i].text.value)
       => /\ BlockedVerdict(result[i])
          /\ platform = "discord"
             => action_taken[i] \in
                   {AUTO_MODERATE_ACTION,
                    "timeout (" \o ToString(DiscordTimeoutDays(result[i])) \o "d)"}
    /\ \A k, l \in 1 .. Len(effects[i]) :
          k < l => PlaceInPlan(effects[i][k].op) < PlaceInPlan(effects[i][l].op)
    /\ \A k \in 1 .. Len(effects[i]) :
          /\ PlaceInPlan(effects[i][k].op) > 0
          /\ effects[i][k].op = "timeout"
             => effects[i][k].days = DiscordTimeoutDays(result[i])
          /\ effects[i][k].op = "restrict"
             => effects[i][k].days = TelegramTimeoutDays(result[i])

\* C21: with two handler runs interleaved at their awaits, each run selects
\* the action and attempts the platform calls that its own message and
\* verdict determine, a step of one run changes nothing the other run holds,
\* and no step writes the configuration.
C21_HandlersIndependent ==
    /\ [](\A i \in MessageIds : AsAlone(i))
    /\ [][/\ UNCHANGED config
          /\ \A i, j \in MessageIds :
                (i # j /\ RunOf(i)' # RunOf(i)) => RunOf(j)' = RunOf(j)]_vars

\* both runs are inside their action blocks at once, at different awaits
C21_Witness ==
    /\ AUTO_MODERATE_ACTION = "timeout"
    /\ platform = "discord"
    /\ pc[1] = "notice" /\ pc[2] = "dm"
    /\ action_taken[1] # "" /\ action_taken[2] # ""


\* the reasons for which a handler ends before the API call
ScopeReasons ==
    {"disabled", "bot", "dm", "empty", "guild", "not_included", "excluded",
     "bypass", "no_text", "chat"}

\* the handler of message i went past its scope checks
Accepted(i) == pc[i] # "idle" /\ skip[i] \notin ScopeReasons

\* C22: a message accepted for evaluation has exactly one moderation request
\* made for it, whatever the reply, and the result its handler holds is the
\* body of the reply to that request: nothing is retried and nothing is taken
\* from the request of another message.
C22_OneRequestPerMessage ==
    \A i \in MessageIds :
        /\ requests[i] = IF Accepted(i) THEN 1 ELSE 0
        /\ result[i] # EmptyDict
           => /\ Returned(i)
              /\ result[i] = IF response[i].code = 200 THEN response[i].text.value
                             ELSE IF platform = "discord"
                             THEN [error |-> TRUE, status_code |-> response[i].code,
                                   message |-> response[i].text]
                             ELSE [error |-> TRUE, message |-> response[i].text]

\* the request of message 1 was answered with a server error and its handler
\* ended; message 2 had its own request, answered with a verdict
C22_Witness ==
    /\ Returned(1) /\ Returned(2)
    /\ pc[1] = "done" /\ response[1].code = 500 /\ requests[1] = 1
    /\ pc[2] = "done" /\ response[2].code = 200 /\ requests[2] = 1
    /\ skip[1] = "api_error" /\ BlockedVerdict(result[2])


\* the channel filter as the specification words it
ChannelModerated(m) ==
    IF AUTO_MODERATE_INCLUDED_CHANNELS # {}
    THEN m.channel \in AUTO_MODERATE_INCLUDED_CHANNELS
    ELSE m.channel \notin AUTO_MODERATE_EXCLUDED_CHANNELS

\* the message of run i reached the channel filter of on_message
ReachedChannelFilter(i) ==
    /\ platform = "discord" /\ msg[i] # EmptyDict
    /\ AUTO_MODERATE_MESSAGES
    /\ ~(AUTO_MODERATE_IGNORE_BOTS /\ msg[i].author_bot)
    /\ msg[i].guild # 0 /\ msg[i].content # ""
    /\ ~(ALLOWED_GUILD_IDS # {} /\ msg[i].guild \notin ALLOWED_GUILD_IDS)

\* C23: on Discord, when the include list is not empty a message passes the
\* channel filter exactly when its channel is in the include list, whatever the
\* exclude list holds; when the include list is empty it passes exactly when
\* its channel is not in the exclude list.  A message that passes and whose
\* author holds no bypass role is sent for evaluation.
C23_DiscordChannelFilter ==
    \A i \in MessageIds :
        ReachedChannelFilter(i)
        => /\ skip[i] \in {"not_included", "excluded"} <=> ~ChannelModerated(msg[i])
           /\ (ChannelModerated(msg[i])
                 /\ msg[i].roles \cap AUTO_MODERATE_BYPASS_ROLES = {})
              => requests[i] = 1

\* a message of a channel in both lists was sent for evaluation
C23_Witness ==
    \E i \in MessageIds :
        /\ ReachedChannelFilter(i)
        /\ msg[i].channel \in AUTO_MODERATE_INCLUDED_CHANNELS
        /\ msg[i].channel \in AUTO_MODERATE_EXCLUDED_CHANNELS
        /\ requests[i] = 1 /\ Returned(i)


\* the side-effects the specification lists for each Discord action
ListedSideEffects(action) ==
    CASE action = "delete" -> {"delete"}
      [] action = "warn" -> {"reply"}
      [] action = "log" -> {}
      [] action = "delete_and_warn" -> {"dm", "notice", "delete"}
      [] action = "timeout" -> {"timeout", "dm", "notice", "delete"}
      [] action = "ban" -> {"ban", "dm", "notice", "delete"}

\* the places in effects[i] of the calls other than the audit post
Enforcement(i) == {k \in 1 .. Len(effects[i]) : effects[i][k].op # "audit"}

\* on_message ended normally on a blocked verdict that meets the threshold,
\* and every platform call it made succeeded
DiscordAllSucceeded(i) ==
    /\ platform = "discord" /\ Returned(i) /\ pc[i] = "done" /\ raised[i] = ""
    /\ BlockedVerdict(result[i])
    /\ severity_meets_threshold(Get(result[i], "severity", "LOW"),
                                AUTO_MODERATE_MIN_SEVERITY)
    /\ \A k \in 1 .. Len(effects[i]) : effects[i][k].out = "ok"

\* C24: when on_message acts on a blocked verdict and every platform call
\* succeeds, the calls it made are those listed for the configured action, each
\* made once: delete removes the message only, warn replies only, log makes
\* none, and delete_and_warn, timeout and ban send the private notice and the
\* channel notice and remove the message, after the mute or the ban.
C24_DiscordSideEffects ==
    \A i \in MessageIds :
        DiscordAllSucceeded(i)
        => /\ {effects[i][k].op : k \in Enforcement(i)}
                 = ListedSideEffects(AUTO_MODERATE_ACTION)
           /\ \A k, n \in Enforcement(i) :
                 effects[i][k].op = effects[i][n].op => k = n

\* a ban, both notices and the deletion succeeded
C24_Witness ==
    \E i \in MessageIds :
        /\ DiscordAllSucceeded(i) /\ AUTO_MODERATE_ACTION = "ban"
        /\ Cardinality(Enforcement(i)) = 4


\* the platform denied the mute or the ban of run i
MuteOrBanDenied(i) ==
    \E k \in 1 .. Len(effects[i]) :
        effects[i][k].op \in {"timeout", "ban"} /\ effects[i][k].out = "Forbidden"

\* the Action Taken values of the entries posted after a mute or a ban that
\* succeeded
ReportedOnSuccess ==
    IF AUTO_MODERATE_ACTION = "ban" THEN {ActionTakenField("ban")}
    ELSE {ActionTakenField("timeout (" \o ToString(d) \o "d)") : d \in 0 .. MaxDays}

\* C25: when the platform denies the mute or the ban, the audit entry posted
\* for the message reports an action other than the one reported after a mute
\* or a ban that succeeded.
C25_AuditSurfacesDenial ==
    \A i \in MessageIds :
        (platform = "discord" /\ MuteOrBanDenied(i) /\ audit_action[i] # "")
        => audit_action[i] \notin ReportedOnSuccess


\* handle_message ended on a blocked verdict that meets the threshold
TelegramActed(i) ==
    /\ platform = "telegram" /\ Returned(i) /\ pc[i] = "done"
    /\ BlockedVerdict(result[i])
    /\ ~TelegramBelowThreshold(Get(result[i], "severity", "LOW"),
                               AUTO_MODERATE_MIN_SEVERITY)

\* C26: with AUTO_MODERATE_ACTION set to "mute", one of the action names of
\* the Telegram configuration comment, handle_message deletes the message of
\* a blocked verdict meeting the threshold and restricts its author.
C26_TelegramMuteActs ==
    \A i \in MessageIds :
        (TelegramActed(i) /\ AUTO_MODERATE_ACTION = "mute")
        => Attempted(i, "delete") /\ Attempted(i, "restrict")


\* the conditions under which on_message returns before evaluation
DiscordSkipped(m) ==
    \/ ~AUTO_MODERATE_MESSAGES
    \/ AUTO_MODERATE_IGNORE_BOTS /\ m.author_bot
    \/ m.guild = 0
    \/ m.content = ""
    \/ ALLOWED_GUILD_IDS # {} /\ m.guild \notin ALLOWED_GUILD_IDS
    \/ ~ChannelModerated(m)
    \/ m.roles \cap AUTO_MODERATE_BYPASS_ROLES # {}

\* the conditions under which handle_message returns before evaluation
TelegramSkipped(m) ==
    \/ ~AUTO_MODERATE_MESSAGES
    \/ m.text = ""
    \/ ALLOWED_CHAT_IDS # {} /\ m.chat \notin ALLOWED_CHAT_IDS

\* C28: no moderation request is made, and so no reply is received, for a
\* message the handler skips before evaluation: on Discord with
\* auto-moderation off, an ignored bot author, a direct message, empty content
\* or a guild, channel or bypass-role exclusion; on Telegram with
\* auto-moderation off, no text, or a chat outside a non-empty ALLOWED_CHAT_IDS.
C28_NoRequestWhenSkipped ==
    \A i \in MessageIds :
        (/\ msg[i] # EmptyDict
         /\ IF platform = "discord" THEN DiscordSkipped(msg[i])
            ELSE TelegramSkipped(msg[i]))
        => requests[i] = 0 /\ ~Returned(i) /\ pc[i] = "done"

\* a Telegram text message of a chat outside the whitelist was skipped, and a
\* Discord direct message was
C28_Witness ==
    \E i \in MessageIds :
        /\ msg[i] # EmptyDict /\ pc[i] = "done" /\ requests[i] = 0
        /\ AUTO_MODERATE_MESSAGES
        /\ \/ /\ platform = "telegram" /\ msg[i].text # ""
              /\ ALLOWED_CHAT_IDS # {} /\ msg[i].chat \notin ALLOWED_CHAT_IDS
           \/ /\ platform = "discord" /\ msg[i].guild = 0 /\ msg[i].content # ""
              /\ ~msg[i].author_bot


\* C29: when the platform denies the timeout or the ban, on_message sends
\* neither the private notice nor the channel notice of that action, both of
\* which state that the user has been timed out or banned.
C29_NoticeOnlyAfterSuccess ==
    \A i \in MessageIds :
        (platform = "discord" /\ AUTO_MODERATE_ACTION \in {"timeout", "ban"}
           /\ MuteOrBanDenied(i))
        => ~Attempted(i, "dm") /\ ~Attempted(i, "notice")


\* the content the command was given
GivenContent ==
    IF platform = "discord" THEN cmd_update.content ELSE join_args(cmd_update.args)

\* the command was given content: the Telegram update holds a message and
\* arguments
ContentGiven ==
    platform = "telegram" => cmd_update.message /\ cmd_update.args # <<>>

\* the ops of the replies that were delivered
Delivered == {cmd_replies[k].op : k \in {n \in 1 .. Len(cmd_replies) :
                                            cmd_replies[n].out = "ok"}}

\* C27: the /moderate command of either bot makes no moderation request for
\* content longer than 50000 characters and answers it with the error reply;
\* for content of at most 50000 characters the request it makes carries the
\* whole content, while the report shows at most its first 200 characters.
C27_ManualModerateLimit ==
    ContentGiven =>
        IF TextLen(GivenContent) > 50000
        THEN /\ call_pc = "idle" /\ payload = EmptyDict
             /\ "report" \notin Delivered
             /\ cmd_pc = "done" => "error" \in Delivered
        ELSE /\ "error" \notin Delivered
             /\ call_pc = "posted" => payload["content"] = GivenContent
             /\ cmd_pc = "done"
                => /\ call_pc = "posted" /\ "report" \in Delivered
                   /\ \A k \in 1 .. Len(cmd_replies) :
                         TextLen(cmd_replies[k].preview) <= 200

\* content of exactly 50000 characters was sent whole and reported on
C27_Witness ==
    /\ cmd_pc = "done" /\ call_pc = "posted"
    /\ TextLen(GivenContent) = 50000
    /\ payload["content"] = GivenContent
    /\ "report" \in Delivered


\* the transient notices run i posted: the places in effects[i] of the warn
\* reply and of the notices in the chat that were delivered
Notices(i) ==
    {k \in 1 .. Len(effects[i]) :
        effects[i][k].op \in {"reply", "notice"} /\ effects[i][k].out = "ok"}

\* the delete_later task k of run i has attempted its deletion
Ran(i, k) == Len(later[i]) >= k /\ later[i][k].state \in {"deleted", "swallowed"}

\* C30: in the Telegram bot each transient notice handle_message posted (the
\* warn reply, the removal, mute and ban notices) has exactly one delete_later
\* task, which deletes that notice (after 30 s for the warn reply, 10 s
\* otherwise) and which eventually makes its attempt; an attempt that fails,
\* as on a notice already removed, changes nothing but the task's own end; and
\* under the warn action the flagged message is never deleted.
C30_TransientNotices ==
    /\ [](\A i \in MessageIds :
            /\ Len(later[i]) = Cardinality(Notices(i))
            /\ \A k \in 1 .. Len(later[i]) :
                  \E n \in Notices(i) :
                     /\ later[i][k].target = effects[i][n].op
                     /\ later[i][k].delay = IF effects[i][n].op = "reply" THEN 30
                                            ELSE 10
            /\ AUTO_MODERATE_ACTION = "warn"
               => /\ ~Attempted(i, "delete")
                  /\ \A k \in 1 .. Len(later[i]) : later[i][k].target = "reply")
    /\ [][\A i \in MessageIds : \A k \in 1 .. Len(later[i]) :
             (later[i][k].state = "awake" /\ later'[i][k].state = "swallowed")
             => UNCHANGED <<config, pc, msg, response, result, skip, action_taken,
                            effects, raised, requests>>]_vars
    /\ \A i \in MessageIds : \A k \in 1 .. 2 :
          (Len(later[i]) >= k) ~> Ran(i, k)

\* the warn reply of one message was deleted by its task, and the deletion of
\* the other message's reply failed and was swallowed
C30_Witness ==
    /\ platform = "telegram" /\ AUTO_MODERATE_ACTION = "warn"
    /\ Len(later[1]) = 1 /\ later[1][1].state = "deleted"
    /\ Len(later[2]) = 1 /\ later[2][1].state = "swallowed"
    /\ ~Attempted(1, "delete") /\ ~Attempted(2, "delete")

====
